---------------------------- MODULE Spec2Model ----------------------------
(***************************************************************************)
(* Admission control of the books API: the TokenBucket rate limiter and   *)
(* the Express middleware built on it.                                     *)
(*                                                                         *)
(* Time is Date.now() in milliseconds.  A refill rate is the rational      *)
(* rateNum / rateDen tokens per second (rateDen > 0), capacities and token *)
(* counts are integers, and the arithmetic of the code is taken as exact:  *)
(* the rounding of IEEE doubles is not modelled.  A JavaScript number that *)
(* may be fractional, undefined or non-finite is a record                  *)
(* [kind, n, d]: the rational n / d when kind = "num".                     *)
(*                                                                         *)
(* Spec      a TokenBucket called directly, each call awaited at once      *)
(* SpecConc  a TokenBucket whose callers keep promises and await later     *)
(* SpecRate  a TokenBucket with an observer counting admitted calls        *)
(* SpecMw    a limiter built by one of the middleware factories, serving   *)
(*           requests                                                      *)
(***************************************************************************)
EXTENDS Integers, Sequences, FiniteSets, TLC

VARIABLES
    now,        \* Date.now(), in ms
    config,     \* the limiter's configuration, fixed at construction
    ctor,       \* how construction ended: "ok", or "error" when it threw
    storage,    \* TokenBucket.storage: bucket key -> [tokens, lastRefill]
    pending,    \* promises returned by consume and not yet awaited, oldest first
    last,       \* what the most recent call on the bucket returned
    hist,       \* per client key: the consume calls since its bucket was created
    obs,        \* an observation window [key, t0, count] of admitted consumes;
                \* under SpecPoll, of the rejected ones
    awaitQ,     \* requests suspended at `await bucket.consume(key)`, oldest first
    resp,       \* the request the middleware finished most recently
    lastAdm,    \* per client key: remainingTokens of its latest admitted request;
                \* under SpecPoll, the time of its latest allowed consume
    limiters,   \* the limiters of the application: their bucket maps and requests
    retry,      \* per client key: the earliest rejection not yet followed by an
                \* admitted consume, and what became of it
    monitor,    \* the ScalabilityMonitor: requestMetrics, activeConnections, startTime
    perf,       \* what getPerformanceMetrics returned last
    collector,  \* the MetricsCollector's counters
    reqs,       \* the requests the application has received, by slot
    assess,     \* the metrics an assessment was made of, and the assessment
    env,        \* process.env: the variables the claims are about
    books,      \* the books table, and the answer to the latest books request
    sums,       \* sum-to-n: the memo of sumToNMemoRecursion and the latest call
    request,    \* the request the middleware derived a key for most recently
    built       \* the factory call that built the limiter

\* the state the other specifications add to the limiter's
appVars == <<limiters, retry, monitor, perf, collector, reqs, assess, env,
            books, sums>>

vars == <<now, config, ctor, storage, pending, last, hist, obs, awaitQ, resp, lastAdm,
          appVars, request, built>>

---------------------------------------------------------------------------
(* Bounds of the model *)

MaxTime == 3        \* the clock stops after this many ticks
TickMs == 1000      \* one tick of the clock, in ms
MaxPending == 3     \* promises of consume outstanding at once
MaxInflight == 2    \* requests suspended in the middleware at once

(* Program constants *)

MsPerSec == 1000
TooManyRequests == 429
OkStatus == 200

Keys == {"client1", "client2"}

\* capacity and refill rate of the limiters the bucket claims range over:
\* 1 and 2 tokens, refilled at 1/2, 1 and 2 tokens per second
Capacities == {1, 2}
RefillRates == {<<1, 2>>, <<1, 1>>, <<2, 1>>}

\* what a caller may hand to a middleware factory
GivenCapacities == {0, 1, 2}
GivenRates == {<<-1, 1>>, <<0, 1>>, <<1, 1>>, <<3, 1>>}

Min(a, b) == IF a < b THEN a ELSE b
Max(a, b) == IF a > b THEN a ELSE b

---------------------------------------------------------------------------
(* JavaScript numbers *)

Num(n, d) == [kind |-> "num", n |-> n, d |-> d]
Undefined == [kind |-> "undefined", n |-> 0, d |-> 1]
Infinity == [kind |-> "inf", n |-> 0, d |-> 1]
NaN == [kind |-> "nan", n |-> 0, d |-> 1]

\* a / refillRate for an integer a >= 0
DivByRate(a, cfg) ==
    IF cfg.rateNum = 0
    THEN (IF a = 0 THEN NaN ELSE Infinity)
    ELSE IF cfg.rateNum > 0
         THEN Num(a * cfg.rateDen, cfg.rateNum)
         ELSE Num(-(a * cfg.rateDen), -cfg.rateNum)

\* the least integer >= n / d, for d > 0
CeilDiv(n, d) == -((-n) \div d)

\* Math.ceil
Ceil(x) == IF x.kind = "num" THEN Num(CeilDiv(x.n, x.d), 1) ELSE x

\* a JavaScript number used as a condition
Truthy(x) == x.kind = "inf" \/ (x.kind = "num" /\ x.n # 0)

---------------------------------------------------------------------------
(* TokenBucket *)

\* a bug: every client shares one bucket
BucketKeyShared(cfg, key) == <<cfg.keyPrefix, "">>

BucketKey(cfg, key) == <<cfg.keyPrefix, key>>

\* the bucket consume and getStatus work on: the stored one, or a full one
GetBucket(st, cfg, key, t) ==
    IF BucketKey(cfg, key) \in DOMAIN st
    THEN st[BucketKey(cfg, key)]
    ELSE [tokens |-> cfg.capacity, lastRefill |-> t]

\* a bug: the elapsed milliseconds are not converted to seconds
TokensToAddMs(b, cfg, t) ==
    ((t - b.lastRefill) * cfg.rateNum) \div cfg.rateDen

\* Math.floor(timeDelta * refillRate)
TokensToAdd(b, cfg, t) ==
    ((t - b.lastRefill) * cfg.rateNum) \div (MsPerSec * cfg.rateDen)

\* a bug: the refill is not capped at the capacity
RefillUncapped(b, cfg, t) ==
    IF TokensToAdd(b, cfg, t) > 0
    THEN [tokens |-> b.tokens + TokensToAdd(b, cfg, t), lastRefill |-> t]
    ELSE b

\* a bug: the refill does not advance lastRefill
RefillKeepsStamp(b, cfg, t) ==
    IF TokensToAdd(b, cfg, t) > 0
    THEN [b EXCEPT !.tokens = Min(cfg.capacity, b.tokens + TokensToAdd(b, cfg, t))]
    ELSE b

\* a bug: every call stamps the bucket, also one that adds no whole token
RefillAlwaysStamps(b, cfg, t) ==
    [tokens |-> Min(cfg.capacity, b.tokens + Max(0, TokensToAdd(b, cfg, t))),
     lastRefill |-> t]

\* the refill step of consume
Refill(b, cfg, t) ==
    IF TokensToAdd(b, cfg, t) > 0
    THEN [tokens |-> Min(cfg.capacity, b.tokens + TokensToAdd(b, cfg, t)),
          lastRefill |-> t]
    ELSE b

\* a bug: an allowed call keeps its token
ConsumedKeepsToken(b) == b

\* the bucket consume leaves behind
Consumed(b) ==
    IF b.tokens >= 1 THEN [b EXCEPT !.tokens = b.tokens - 1] ELSE b

\* a bug: the wait is rounded down
RetryAfterFloor(tokens, cfg) ==
    LET x == DivByRate(1 - tokens, cfg)
    IN  IF x.kind = "num" THEN Num(x.n \div x.d, 1) ELSE x

RetryAfter(tokens, cfg) == Ceil(DivByRate(1 - tokens, cfg))

\* now + (tokensNeeded / refillRate) * 1000
ResetTime(tokens, cfg, t) ==
    LET q == DivByRate(cfg.capacity - tokens, cfg)
    IN  IF q.kind = "num" THEN Num(t * q.d + q.n * MsPerSec, q.d) ELSE q

ConsumeResult(b, cfg, t) ==
    LET r == Refill(b, cfg, t)
        c == Consumed(r)
    IN  [allowed |-> r.tokens >= 1,
         remainingTokens |-> c.tokens,
         retryAfterSeconds |->
             IF r.tokens >= 1 THEN Undefined ELSE RetryAfter(r.tokens, cfg),
         resetTime |-> ResetTime(c.tokens, cfg, t)]

StorageSet(st, bk, b) ==
    [x \in DOMAIN st \cup {bk} |-> IF x = bk THEN b ELSE st[x]]

\* a bug: reset empties the bucket instead of deleting it
StorageDeleteEmpties(st, bk) ==
    [x \in DOMAIN st |-> IF x = bk THEN [st[x] EXCEPT !.tokens = 0] ELSE st[x]]

StorageDelete(st, bk) == [x \in DOMAIN st \ {bk} |-> st[x]]

\* a bug: the bucket written back is the one read before the decrement
ConsumeStorageLost(st, cfg, key, t) ==
    StorageSet(st, BucketKey(cfg, key), Refill(GetBucket(st, cfg, key, t), cfg, t))

ConsumeStorage(st, cfg, key, t) ==
    StorageSet(st, BucketKey(cfg, key),
               Consumed(Refill(GetBucket(st, cfg, key, t), cfg, t)))

\* a bug: getStatus reports the stored count, without the tokens due
StatusTokensStored(b, cfg, t) == b.tokens

StatusTokens(b, cfg, t) == Min(cfg.capacity, b.tokens + TokensToAdd(b, cfg, t))

StatusResult(b, cfg, t) ==
    LET cur == StatusTokens(b, cfg, t)
    IN  [allowed |-> FALSE,
         remainingTokens |-> cur,
         retryAfterSeconds |->
             IF cur < 1 THEN RetryAfter(cur, cfg) ELSE Undefined,
         resetTime |-> ResetTime(cur, cfg, t)]

NoResult ==
    [allowed |-> FALSE, remainingTokens |-> 0,
     retryAfterSeconds |-> Undefined, resetTime |-> Undefined]

---------------------------------------------------------------------------
(* History of the consume calls of one client key, kept for the claims *)

SatCalls(cfg) == cfg.capacity + 2

Sat(n, cfg) == Min(n, SatCalls(cfg))

\* birth: when the stored bucket was created (-1: there is none); n0, a0: the
\* consume calls made at that instant and how many of them were allowed;
\* t2: the instant of the first consume after birth if the bucket was
\* exhausted at birth (-1: none yet, -2: not applicable or over); n2, a2: the
\* calls at t2 and the allowed ones among them; wiped: there is no bucket
\* because reset deleted one
NoHist ==
    [birth |-> -1, n0 |-> 0, a0 |-> 0, t2 |-> -1, n2 |-> 0, a2 |-> 0,
     wiped |-> FALSE]

HistConsume(h, cfg, had, t, allowed) ==
    LET one == IF allowed THEN 1 ELSE 0
    IN  IF ~had
        THEN [NoHist EXCEPT !.birth = t, !.n0 = 1, !.a0 = one]
        ELSE IF t = h.birth
        THEN [h EXCEPT !.n0 = Sat(h.n0 + 1, cfg), !.a0 = Sat(h.a0 + one, cfg)]
        ELSE IF h.t2 = -1
        THEN (IF h.n0 >= cfg.capacity
              THEN [h EXCEPT !.t2 = t, !.n2 = 1, !.a2 = one]
              ELSE [h EXCEPT !.t2 = -2])
        ELSE IF h.t2 = t
        THEN [h EXCEPT !.n2 = Sat(h.n2 + 1, cfg), !.a2 = Sat(h.a2 + one, cfg)]
        ELSE [h EXCEPT !.t2 = -2, !.n2 = 0, !.a2 = 0]

NoObs == [key |-> "", t0 |-> 0, count |-> 0]

NoLast == [op |-> "none", key |-> "", res |-> NoResult]

---------------------------------------------------------------------------
(* Operations on a TokenBucket, called directly *)

\* Date.now() advances
Tick ==
    /\ now + TickMs <= MaxTime * TickMs
    /\ now' = now + TickMs
    /\ last' = NoLast
    /\ UNCHANGED <<request, built, config, ctor, appVars, storage, pending, hist, obs, awaitQ, resp, lastAdm>>

\* the body of consume: it holds no await, so it runs to its end when called
ConsumeBody(key) ==
    /\ ctor = "ok"
    /\ storage' = ConsumeStorage(storage, config, key, now)
    /\ UNCHANGED <<request, built, now, config, ctor, awaitQ, resp, lastAdm>>

ConsumeHist(key) ==
    hist' = [hist EXCEPT ![key] =
        HistConsume(hist[key], config,
                    BucketKey(config, key) \in DOMAIN storage, now,
                    ConsumeResult(GetBucket(storage, config, key, now),
                                  config, now).allowed)]

\* await bucket.consume(key)
Consume(key) ==
    /\ ConsumeBody(key)
    /\ ConsumeHist(key)
    /\ last' = [op |-> "consume", key |-> key,
                res |-> ConsumeResult(GetBucket(storage, config, key, now),
                                      config, now)]
    /\ UNCHANGED <<request, built, pending, obs, appVars>>

\* a bug: getStatus stores the bucket it computed
GetStatusStores(key) ==
    /\ ctor = "ok"
    /\ storage' = StorageSet(storage, BucketKey(config, key),
                             [tokens |-> StatusTokens(GetBucket(storage, config, key, now), config, now),
                              lastRefill |-> now])
    /\ last' = [op |-> "getStatus", key |-> key,
                res |-> StatusResult(GetBucket(storage, config, key, now), config, now)]
    /\ UNCHANGED <<request, built, now, config, ctor, appVars, pending, hist, obs, awaitQ, resp, lastAdm>>

GetStatus(key) ==
    /\ ctor = "ok"
    /\ last' = [op |-> "getStatus", key |-> key,
                res |-> StatusResult(GetBucket(storage, config, key, now), config, now)]
    /\ UNCHANGED <<request, built, now, config, ctor, appVars, storage, pending, hist, obs, awaitQ, resp, lastAdm>>

Reset(key) ==
    /\ ctor = "ok"
    /\ storage' = StorageDelete(storage, BucketKey(config, key))
    /\ hist' = [hist EXCEPT ![key] =
                    [NoHist EXCEPT !.wiped =
                        hist[key].wiped \/ BucketKey(config, key) \in DOMAIN storage]]
    /\ obs' = IF obs.key = key THEN NoObs ELSE obs
    /\ last' = [op |-> "reset", key |-> key, res |-> NoResult]
    /\ UNCHANGED <<request, built, now, config, ctor, appVars, pending, awaitQ, resp, lastAdm>>

ResetAll ==
    /\ ctor = "ok"
    /\ storage' = <<>>
    /\ hist' = [k \in Keys |->
                    [NoHist EXCEPT !.wiped =
                        hist[k].wiped \/ BucketKey(config, k) \in DOMAIN storage]]
    /\ obs' = NoObs
    /\ last' = [op |-> "reset", key |-> "", res |-> NoResult]
    /\ UNCHANGED <<request, built, now, config, ctor, appVars, pending, awaitQ, resp, lastAdm>>

---------------------------------------------------------------------------
(* new TokenBucket(config): no check of the configuration *)

TokenBucketConfig(capacity, rate, keyPrefix) ==
    [capacity |-> capacity, rateNum |-> rate[1], rateDen |-> rate[2],
     keyPrefix |-> keyPrefix, onLimitReached |-> "none"]

NoHeaders ==
    [set |-> FALSE, limit |-> 0, remaining |-> 0, reset |-> Undefined,
     retryAfter |-> Undefined]

NoResp ==
    [pc |-> "none", key |-> "", consumed |-> FALSE, res |-> NoResult,
     stored |-> 0, touched |-> FALSE, prev |-> -1, headers |-> NoHeaders,
     statusCode |-> OkStatus, body |-> "none", nextCalls |-> 0, err |-> "none"]

\* the limiters index.ts builds: createConfiguredRateLimiter() and
\* createProfiledRateLimiter('write')
Instances == {"globalRateLimit", "writeRateLimit"}

NoUse == [inst |-> "", key |-> "", res |-> NoResult]

\* maps: the bucket maps; passed: the clients of write requests the global
\* limiter admitted and the write limiter has yet to see, oldest first;
\* lastUse: the latest consume made through one of the limiters
NoLimiters ==
    [maps |-> [i \in Instances |-> <<>>], passed |-> <<>>, lastUse |-> NoUse]

---------------------------------------------------------------------------
(* ScalabilityMonitor and MetricsCollector, scalabilityController.ts *)

BufferCap == 10000      \* requestMetrics.length > 10000
KeepLast == 5000        \* slice(-5000)
CleanupEvery == 1000    \* requestMetrics.length % 1000 === 0
WindowMs == 60000       \* oneMinuteAgo = now - 60 * 1000
ErrorStatus == 400      \* req.status >= 400

MaxReqs == 3        \* requests the application receives
MaxMade == 3        \* recordRequest calls made on the monitor directly
MaxElapse == 2      \* times the monitor's clock is advanced

ReqIds == 1..MaxReqs

\* a record of requestMetrics; id, the number of the push that made it, is
\* kept for the claims
RequestMetric(t, responseTime, statusCode, id) ==
    [timestamp |-> t, responseTime |-> responseTime, status |-> statusCode, id |-> id]

\* a monitor that has recorded n requests, all at time 0; made counts the
\* recordRequest calls of the behaviour
NewMonitor(n) ==
    [requestMetrics |-> [i \in 1..n |-> RequestMetric(0, 0, OkStatus, i)],
     activeConnections |-> {},
     startTime |-> 0,
     pushed |-> n,
     made |-> 0]

\* a bug: the oldest records are kept
CompactOldest(buffer) ==
    IF Len(buffer) > BufferCap THEN SubSeq(buffer, 1, KeepLast) ELSE buffer

\* a bug: the buffer is never cut
CompactNever(buffer) == buffer

\* if (length > 10000) requestMetrics = requestMetrics.slice(-5000)
Compact(buffer) ==
    IF Len(buffer) > BufferCap
    THEN SubSeq(buffer, Len(buffer) - KeepLast + 1, Len(buffer))
    ELSE buffer

\* a bug: the set is never cleared
CleanupNever(buffer, conns) == conns

\* cleanupOldConnections
CleanupOldConnections(buffer, conns) ==
    IF Len(buffer) % CleanupEvery = 0 THEN {} ELSE conns

\* a bug: rejected requests are left out
RecordRequestAdmittedOnly(mon, responseTime, statusCode, clientId, t) ==
    IF statusCode = TooManyRequests THEN mon
    ELSE [mon EXCEPT
            !.requestMetrics =
                Compact(Append(mon.requestMetrics,
                               RequestMetric(t, responseTime, statusCode, mon.pushed + 1))),
            !.pushed = mon.pushed + 1]

\* recordRequest(responseTime, statusCode, clientId) at Date.now() = t
RecordRequest(mon, responseTime, statusCode, clientId, t) ==
    LET kept == Compact(Append(mon.requestMetrics,
                               RequestMetric(t, responseTime, statusCode, mon.pushed + 1)))
        conns == IF clientId # "" THEN mon.activeConnections \cup {clientId}
                 ELSE mon.activeConnections
    IN  [mon EXCEPT !.requestMetrics = kept,
                    !.activeConnections = CleanupOldConnections(kept, conns),
                    !.pushed = mon.pushed + 1]

\* reset() at Date.now() = t
MonitorReset(mon, t) ==
    [mon EXCEPT !.requestMetrics = <<>>, !.activeConnections = {}, !.startTime = t]

\* Math.round(n / d) for d > 0
Round(n, d) == (2 * n + d) \div (2 * d)

\* a bug: the records are not filtered by the window
RecentAll(buffer, t) == buffer

\* requestMetrics.filter(req => req.timestamp > oneMinuteAgo)
Recent(buffer, t) ==
    LET InWindow(r) == r.timestamp > t - WindowMs
    IN  SelectSeq(buffer, InWindow)

\* reduce((sum, time) => sum + time, 0) over seq[lo..hi]
RECURSIVE SumResponseTimes(_, _, _)
SumResponseTimes(seq, lo, hi) ==
    IF lo > hi THEN 0
    ELSE IF lo = hi THEN seq[lo].responseTime
    ELSE SumResponseTimes(seq, lo, (lo + hi) \div 2)
             + SumResponseTimes(seq, (lo + hi) \div 2 + 1, hi)

\* responseTimes.sort((a, b) => a - b)[index], index counted from 0: the value
\* with at most index smaller ones and more than index not larger
SortedAt(seq, index) ==
    CHOOSE v \in {seq[i].responseTime : i \in 1..Len(seq)} :
        /\ Cardinality({i \in 1..Len(seq) : seq[i].responseTime < v}) <= index
        /\ Cardinality({i \in 1..Len(seq) : seq[i].responseTime <= v}) > index

ZeroPerformance ==
    [avg |-> 0, p95 |-> 0, p99 |-> 0,
     requestsPerSecond |-> 0, requestsPerMinute |-> 0,
     errorRate |-> 0, errorCount |-> 0]

\* a bug: the records older than the window are counted too
PerformanceMetricsWholeBuffer(buffer, t) ==
    LET n == Len(buffer)
        IsError(r) == r.status >= ErrorStatus
        errors == Len(SelectSeq(buffer, IsError))
    IN  IF n = 0 THEN ZeroPerformance
        ELSE [avg |-> Round(SumResponseTimes(buffer, 1, n) * 100, n),
              p95 |-> SortedAt(buffer, (n * 95) \div 100) * 100,
              p99 |-> SortedAt(buffer, (n * 99) \div 100) * 100,
              requestsPerSecond |-> Round(n * 100, 60),
              requestsPerMinute |-> n,
              errorRate |-> Round(errors * 10000, n),
              errorCount |-> errors]

\* getPerformanceMetrics() at Date.now() = t; avg, p95, p99, requestsPerSecond
\* and errorRate in hundredths, as Math.round(x * 100) / 100 leaves them
PerformanceMetrics(buffer, t) ==
    LET recent == Recent(buffer, t)
        n == Len(recent)
        IsError(r) == r.status >= ErrorStatus
        errors == Len(SelectSeq(recent, IsError))
    IN  IF n = 0 THEN ZeroPerformance
        ELSE [avg |-> Round(SumResponseTimes(recent, 1, n) * 100, n),
              p95 |-> SortedAt(recent, (n * 95) \div 100) * 100,
              p99 |-> SortedAt(recent, (n * 99) \div 100) * 100,
              requestsPerSecond |-> Round(n * 100, 60),
              requestsPerMinute |-> n,
              errorRate |-> Round(errors * 10000, n),
              errorCount |-> errors]

NoPerf == [op |-> "none", res |-> ZeroPerformance]

\* GET /health, GET /api/books, POST /api/books
Routes == {"health", "read", "write"}

\* the collector's counters
NewCollector ==
    [totalRequests |-> 0, rateLimitedRequests |-> 0,
     requestsPerEndpoint |-> [r \in Routes |-> 0],
     rateLimitViolationsPerKey |-> [k \in Keys |-> 0]]

NoRequest ==
    [stage |-> "idle", client |-> "", route |-> "", startTime |-> 0,
     statusCode |-> OkStatus, counted |-> 0, recorded |-> 0, recordedStatus |-> 0,
     headers |-> NoHeaders, ran |-> <<>>]

NoAssess == [metrics |-> <<>>, result |-> <<>>, prev |-> <<>>]

\* const memo = new Map(), and no call made
NoSums == [memo |-> <<>>, out |-> [fn |-> "none", n |-> 0, kind |-> "none", v |-> 0]]

\* no book stored and no books request answered
NoBooks ==
    [table |-> <<>>, out |-> [op |-> "none", id |-> "", body |-> <<>>, status |-> 0]]

\* process.env with neither variable set
NoEnv ==
    [NODE_ENV |-> "", RATE_LIMIT_ENABLED |-> "", RATE_LIMIT_CAPACITY |-> <<>>,
     RATE_LIMIT_REFILL_RATE |-> <<>>]

NoRetry == [state |-> "none", at |-> 0, after |-> Undefined]

\* no request yet: no header, no socket address
NoHeader == [present |-> FALSE, text |-> <<>>]

NoIncoming == [forwarded |-> NoHeader, realIp |-> NoHeader, remoteAddress |-> NoHeader]

\* no factory call on record
NoOverrides == [capacity |-> Undefined, refillRate |-> Undefined]

NoCall == [factory |-> "none", profile |-> "", overrides |-> NoOverrides]

InitCore ==
    /\ request = NoIncoming
    /\ now = 0
    /\ storage = <<>>
    /\ pending = <<>>
    /\ last = NoLast
    /\ hist = [k \in Keys |-> NoHist]
    /\ obs = NoObs
    /\ awaitQ = <<>>
    /\ resp = NoResp
    /\ lastAdm = [k \in Keys |-> -1]
    /\ limiters = NoLimiters
    /\ retry = [k \in Keys |-> NoRetry]
    /\ perf = NoPerf
    /\ collector = NewCollector
    /\ reqs = [i \in ReqIds |-> NoRequest]

InitRest ==
    /\ InitCore
    /\ monitor = NewMonitor(0)
    /\ assess = NoAssess
    /\ env = NoEnv
    /\ books = NoBooks
    /\ built = NoCall
    /\ sums = NoSums

Init ==
    /\ \E c \in Capacities, r \in RefillRates :
           config = TokenBucketConfig(c, r, "test")
    /\ ctor = "ok"
    /\ InitRest

Next ==
    \/ Tick
    \/ \E k \in Keys : Consume(k)
    \/ \E k \in Keys : GetStatus(k)
    \/ \E k \in Keys : Reset(k)
    \/ ResetAll

Spec == Init /\ [][Next]_vars

---------------------------------------------------------------------------
(* Concurrent callers: consume is called again before earlier promises are *)
(* awaited                                                                 *)

\* a call whose promise is kept and awaited later
ConsumeStart(key) ==
    /\ Len(pending) < MaxPending
    /\ ConsumeBody(key)
    /\ ConsumeHist(key)
    /\ pending' = Append(pending,
           [key |-> key,
            res |-> ConsumeResult(GetBucket(storage, config, key, now),
                                  config, now)])
    /\ UNCHANGED <<request, built, last, obs, appVars>>

\* the caller awaits the oldest outstanding promise
Await ==
    /\ pending # <<>>
    /\ pending' = Tail(pending)
    /\ last' = [op |-> "await", key |-> Head(pending).key, res |-> Head(pending).res]
    /\ UNCHANGED <<request, built, now, config, ctor, appVars, storage, hist, obs, awaitQ, resp, lastAdm>>

NextConc ==
    \/ Tick
    \/ \E k \in Keys : ConsumeStart(k)
    \/ Await

\* no time passes in the case at hand: one refill rate stands for all
InitConc ==
    /\ \E c \in Capacities : config = TokenBucketConfig(c, <<1, 1>>, "test")
    /\ ctor = "ok"
    /\ InitRest

SpecConc == InitConc /\ [][NextConc]_vars

---------------------------------------------------------------------------
(* An observer counts the admitted consumes of one key from some instant on *)

StartWindow(key) ==
    /\ obs = NoObs
    /\ obs' = [key |-> key, t0 |-> now, count |-> 0]
    /\ UNCHANGED <<request, built, now, config, ctor, appVars, storage, pending, last, hist, awaitQ, resp, lastAdm>>

ConsumeObserved(key) ==
    /\ ConsumeBody(key)
    /\ obs' = IF obs.key = key
                 /\ ConsumeResult(GetBucket(storage, config, key, now),
                                  config, now).allowed
              THEN [obs EXCEPT !.count = obs.count + 1]
              ELSE obs
    /\ UNCHANGED <<request, built, pending, last, hist, appVars>>

NextRate ==
    \/ Tick
    \/ \E k \in Keys : ConsumeObserved(k)
    \/ \E k \in Keys : StartWindow(k)
    \/ \E k \in Keys : Reset(k)

SpecRate == Init /\ [][NextRate]_vars

---------------------------------------------------------------------------
(* The middleware factories *)

\* does the factory check the configuration before building the limiter
Validates(path) ==
    path \in {"createConfiguredRateLimiter", "createProfiledRateLimiter"}

\* the prefix the limiter ends up with when the caller gives none
DefaultPrefix(path) ==
    IF Validates(path) THEN "api_rate_limit" ELSE "rate_limit"

MiddlewareConfig(path, capacity, rate, hook) ==
    [capacity |-> capacity, rateNum |-> rate[1], rateDen |-> rate[2],
     keyPrefix |-> DefaultPrefix(path), onLimitReached |-> hook]

\* the factory throws instead of returning a middleware
ConstructionFails(path, capacity, rate) ==
    Validates(path) /\ (capacity <= 0 \/ rate[1] <= 0)

Factories ==
    {"createRateLimitMiddleware", "createConfiguredRateLimiter",
     "createProfiledRateLimiter"}

InitMw ==
    /\ \E path \in Factories, c \in GivenCapacities, r \in GivenRates,
          hook \in {"none", "set"} :
           /\ config = MiddlewareConfig(path, c, r, hook)
           /\ ctor = IF ConstructionFails(path, c, r) THEN "error" ELSE "ok"
    /\ InitRest

---------------------------------------------------------------------------
(* The middleware returned by createRateLimitMiddleware *)

\* new Date(x).toISOString() throws a RangeError unless x is a time value
ValidDate(x) == x.kind = "num"

\* a bug: the header reports the tokens before this request took its own
RemainingBeforeConsume(res) ==
    IF res.allowed THEN res.remainingTokens + 1 ELSE Max(0, res.remainingTokens)

\* X-RateLimit-Remaining
RemainingHeader(res) == Max(0, res.remainingTokens)

\* X-RateLimit-Reset: Math.ceil(result.resetTime / 1000)
ResetHeader(res) ==
    IF res.resetTime.kind = "num"
    THEN Ceil(Num(res.resetTime.n, res.resetTime.d * MsPerSec))
    ELSE res.resetTime

RateLimitHeaders(cfg, res) ==
    [set |-> TRUE, limit |-> cfg.capacity, remaining |-> RemainingHeader(res),
     reset |-> ResetHeader(res), retryAfter |-> Undefined]

\* the request as the code before `if (!result.allowed)` leaves it
Answered(cfg, e) ==
    [NoResp EXCEPT !.pc = "done", !.key = e.key, !.consumed = TRUE,
                   !.res = e.res, !.stored = e.stored, !.touched = e.touched,
                   !.prev = e.prev, !.headers = RateLimitHeaders(cfg, e.res)]

WithRetryAfter(r) ==
    IF Truthy(r.res.retryAfterSeconds)
    THEN [r EXCEPT !.headers.retryAfter = r.res.retryAfterSeconds]
    ELSE r

\* catch (error) { next() }
FailOpen(r, why) == [r EXCEPT !.err = why, !.nextCalls = r.nextCalls + 1]

\* the rejection branch; hook is what config.onLimitReached does when called
Rejected(cfg, e, hook) ==
    LET r == WithRetryAfter(Answered(cfg, e))
    IN  IF cfg.onLimitReached = "set" /\ hook = "throws"
        THEN FailOpen(r, "onLimitReached")
        ELSE IF ~ValidDate(e.res.resetTime)
        THEN FailOpen([r EXCEPT !.statusCode = TooManyRequests], "toISOString")
        ELSE [r EXCEPT !.statusCode = TooManyRequests, !.body = "rejection"]

Admitted(cfg, e) ==
    [Answered(cfg, e) EXCEPT !.nextCalls = 1]

\* keyGenerator(req) throws: the catch block lets the request through
MwKeyError(client) ==
    /\ ctor = "ok"
    /\ awaitQ = <<>>
    /\ resp' = FailOpen([NoResp EXCEPT !.pc = "done"], "keyGenerator")
    /\ UNCHANGED <<request, built, now, config, ctor, appVars, storage, pending, last, hist, obs, awaitQ, lastAdm>>

\* a request arrives: the key is derived and consume runs, then the
\* middleware is suspended at the await
MwStart(client) ==
    LET b == GetBucket(storage, config, client, now)
        res == ConsumeResult(b, config, now)
        refilled == TokensToAdd(b, config, now) > 0
    IN  /\ ctor = "ok"
        /\ Len(awaitQ) < MaxInflight
        /\ storage' = ConsumeStorage(storage, config, client, now)
        /\ awaitQ' = Append(awaitQ,
               [key |-> client, res |-> res,
                stored |-> storage'[BucketKey(config, client)].tokens,
                touched |-> storage' # storage,
                prev |-> IF refilled THEN -1 ELSE lastAdm[client]])
        /\ lastAdm' = [lastAdm EXCEPT ![client] =
               IF res.allowed THEN res.remainingTokens
               ELSE IF refilled THEN -1 ELSE @]
        /\ UNCHANGED <<request, built, now, config, ctor, appVars, pending, last, hist, obs, resp>>

\* the oldest suspended request resumes and is admitted
MwAdmit ==
    /\ awaitQ # <<>>
    /\ Head(awaitQ).res.allowed
    /\ resp' = Admitted(config, Head(awaitQ))
    /\ awaitQ' = Tail(awaitQ)
    /\ UNCHANGED <<request, built, now, config, ctor, appVars, storage, pending, last, hist, obs, lastAdm>>

\* the oldest suspended request resumes and is rejected
MwReject ==
    /\ awaitQ # <<>>
    /\ ~Head(awaitQ).res.allowed
    /\ \E hook \in {"returns", "throws"} :
           resp' = Rejected(config, Head(awaitQ), hook)
    /\ awaitQ' = Tail(awaitQ)
    /\ UNCHANGED <<request, built, now, config, ctor, appVars, storage, pending, last, hist, obs, lastAdm>>

NextMw ==
    \/ Tick
    \/ \E k \in Keys : MwKeyError(k)
    \/ \E k \in Keys : MwStart(k)
    \/ MwAdmit
    \/ MwReject

SpecMw == InitMw /\ [][NextMw]_vars

---------------------------------------------------------------------------
(* The limiters of the application, index.ts *)

MaxPassed == 2      \* write requests between the two limiters at once

\* their configurations, scaled down from 100 tokens at 1.67/s and 50 tokens
\* at 0.83/s: the write profile has half the capacity and half the rate, and
\* neither sets a key prefix, so both get createConfiguredRateLimiter's
ProfileConfig(inst) ==
    IF inst = "globalRateLimit"
    THEN MiddlewareConfig("createConfiguredRateLimiter", 2, <<2, 1>>, "none")
    ELSE MiddlewareConfig("createProfiledRateLimiter", 1, <<1, 1>>, "none")

\* a bug: the bucket map is shared by every TokenBucket
StorageOfShared(inst) == "globalRateLimit"

\* this.storage = new Map(): each TokenBucket has a map of its own
StorageOf(inst) == inst

Methods == {"GET", "POST"}

\* ['POST', 'PUT', 'DELETE'].includes(req.method)
IsWrite(method) == method = "POST"

\* bucket.consume(key) of the limiter inst
LimiterResult(inst, key) ==
    ConsumeResult(GetBucket(limiters.maps[StorageOf(inst)], ProfileConfig(inst), key, now),
                  ProfileConfig(inst), now)

LimiterMaps(inst, key) ==
    [limiters.maps EXCEPT ![StorageOf(inst)] =
        ConsumeStorage(limiters.maps[StorageOf(inst)], ProfileConfig(inst), key, now)]

\* app.use('/api', globalRateLimit)
GlobalRateLimit(client, method) ==
    LET res == LimiterResult("globalRateLimit", client)
        goesOn == res.allowed /\ IsWrite(method)
    IN  /\ goesOn => Len(limiters.passed) < MaxPassed
        /\ limiters' =
               [maps |-> LimiterMaps("globalRateLimit", client),
                passed |-> IF goesOn THEN Append(limiters.passed, client)
                           ELSE limiters.passed,
                lastUse |-> [inst |-> "globalRateLimit", key |-> client, res |-> res]]
        /\ UNCHANGED <<request, built, now, config, ctor, storage, pending, last, hist, obs, awaitQ,
                       resp, lastAdm, retry, monitor, perf, collector, reqs,
                   assess, env,
                   books, sums>>

\* app.use('/api/books', ...): writeRateLimit for the write methods
WriteRateLimit ==
    /\ limiters.passed # <<>>
    /\ limiters' =
           [maps |-> LimiterMaps("writeRateLimit", Head(limiters.passed)),
            passed |-> Tail(limiters.passed),
            lastUse |-> [inst |-> "writeRateLimit", key |-> Head(limiters.passed),
                         res |-> LimiterResult("writeRateLimit", Head(limiters.passed))]]
    /\ UNCHANGED <<request, built, now, config, ctor, storage, pending, last, hist, obs, awaitQ,
                   resp, lastAdm, retry, monitor, perf, collector, reqs,
                   assess, env,
                   books, sums>>

NextApp ==
    \/ Tick
    \/ \E k \in Keys, m \in Methods : GlobalRateLimit(k, m)
    \/ WriteRateLimit

InitApp ==
    /\ config = ProfileConfig("globalRateLimit")
    /\ ctor = "ok"
    /\ InitRest

SpecApp == InitApp /\ [][NextApp]_vars

---------------------------------------------------------------------------
(* A client that is rejected and comes back *)

\* what a consume at time t with result res makes of the rejection on record
RetryNext(r, res, t) ==
    IF res.allowed
    THEN IF r.state = "waiting" /\ t >= r.at + r.after.n * MsPerSec
         THEN [r EXCEPT !.state = "served"]
         ELSE NoRetry
    ELSE IF r.state = "waiting"
         THEN r
         ELSE [state |-> "waiting", at |-> t, after |-> res.retryAfterSeconds]

ConsumeRetry(key) ==
    /\ ConsumeBody(key)
    /\ last' = [op |-> "consume", key |-> key,
                res |-> ConsumeResult(GetBucket(storage, config, key, now),
                                      config, now)]
    /\ retry' = [retry EXCEPT ![key] =
                    RetryNext(retry[key],
                              ConsumeResult(GetBucket(storage, config, key, now),
                                            config, now), now)]
    /\ UNCHANGED <<request, built, pending, hist, obs, limiters, monitor, perf, collector, reqs,
                   assess, env,
                   books, sums>>

NextRetry ==
    \/ Tick
    \/ \E k \in Keys : ConsumeRetry(k)

SpecRetry == Init /\ [][NextRetry]_vars

---------------------------------------------------------------------------
(* The default key generator of createRateLimitMiddleware *)

\* A string is the sequence of its characters; a value that may be undefined
\* is a record [present, text].
MaxHeader == 3      \* characters of an X-Forwarded-For header

Str(t) == [present |-> TRUE, text |-> t]

\* the characters of a forwarded header: one of an address, and the comma
Chars == {"a", ","}

Forwardeds ==
    {NoHeader} \cup {Str(t) : t \in UNION {[1..n -> Chars] : n \in 0..MaxHeader}}

RealIps == {NoHeader, Str(<<>>), Str(<<"r">>)}

RemoteAddresses == {NoHeader, Str(<<"p">>)}

Unknown == Str(<<"u", "n", "k", "n", "o", "w", "n">>)

\* text.split(',')[0]
RECURSIVE FirstField(_)
FirstField(t) ==
    IF t = <<>> \/ Head(t) = "," THEN <<>>
    ELSE <<Head(t)>> \o FirstField(Tail(t))

\* a bug: the whole header is the key
SplitFirstWhole(h) == h

\* forwarded?.split(',')[0]
SplitFirst(h) == IF h.present THEN Str(FirstField(h.text)) ELSE h

\* a || b: undefined and the empty string are falsy
OrElse(a, b) == IF a.present /\ a.text # <<>> THEN a ELSE b

\* forwarded?.split(',')[0] || realIp || req.socket.remoteAddress || 'unknown'
DefaultKeyGenerator(req) ==
    OrElse(OrElse(OrElse(SplitFirst(req.forwarded), req.realIp),
                  req.remoteAddress),
           Unknown).text

\* the middleware serves a request with the default key generator; the
\* model follows as many buckets as it has client names
MwDefault(req) ==
    LET key == DefaultKeyGenerator(req)
        b == GetBucket(storage, config, key, now)
        res == ConsumeResult(b, config, now)
        after == ConsumeStorage(storage, config, key, now)
        e == [key |-> key, res |-> res,
              stored |-> after[BucketKey(config, key)].tokens,
              touched |-> after # storage, prev |-> -1]
    IN  /\ ctor = "ok"
        /\ \/ BucketKey(config, key) \in DOMAIN storage
           \/ Cardinality(DOMAIN storage) < Cardinality(Keys)
        /\ request' = req
        /\ storage' = after
        /\ last' = [op |-> "consume", key |-> key, res |-> res]
        /\ resp' = IF res.allowed THEN Admitted(config, e)
                   ELSE Rejected(config, e, "returns")
        /\ UNCHANGED <<built, now, config, ctor, appVars, pending, hist, obs, awaitQ,
                       lastAdm>>

NextKey ==
    \E f \in Forwardeds, r \in RealIps, p \in RemoteAddresses :
        MwDefault([forwarded |-> f, realIp |-> r, remoteAddress |-> p])

InitKey ==
    /\ \E c \in Capacities :
           config = MiddlewareConfig("createRateLimitMiddleware", c, <<1, 1>>, "none")
    /\ ctor = "ok"
    /\ InitRest

SpecKey == InitKey /\ [][NextKey]_vars

---------------------------------------------------------------------------
(* createConfiguredRateLimiter and createProfiledRateLimiter: the          *)
(* configuration from the environment, the profiles and the overrides      *)

\* The text of an environment variable is the sequence of its characters;
\* <<>> is a variable that is not set, or set to the empty string.
Digits == <<"0", "1", "2", "3", "4", "5", "6", "7", "8", "9">>

IsDigit(c) == \E i \in 1..Len(Digits) : Digits[i] = c

Digit(c) == (CHOOSE i \in 1..Len(Digits) : Digits[i] = c) - 1

\* the digits a text starts with
RECURSIVE LeadingDigits(_)
LeadingDigits(t) ==
    IF t = <<>> \/ ~IsDigit(Head(t)) THEN <<>>
    ELSE <<Head(t)>> \o LeadingDigits(Tail(t))

\* the number a sequence of digits writes
RECURSIVE DecimalValue(_)
DecimalValue(t) ==
    IF t = <<>> THEN 0
    ELSE DecimalValue(SubSeq(t, 1, Len(t) - 1)) * Len(Digits) + Digit(t[Len(t)])

RECURSIVE PowerOfTen(_)
PowerOfTen(n) == IF n = 0 THEN 1 ELSE Len(Digits) * PowerOfTen(n - 1)

Unsigned(t) == IF t # <<>> /\ Head(t) = "-" THEN Tail(t) ELSE t

Signed(t, n) == IF t # <<>> /\ Head(t) = "-" THEN -n ELSE n

\* parseInt(text, 10)
ParseIntText(t) ==
    LET d == LeadingDigits(Unsigned(t))
    IN  IF d = <<>> THEN NaN ELSE Num(Signed(t, DecimalValue(d)), 1)

\* parseFloat(text), for texts without an exponent
ParseFloatText(t) ==
    LET d == LeadingDigits(Unsigned(t))
        rest == SubSeq(Unsigned(t), Len(d) + 1, Len(Unsigned(t)))
        f == IF rest # <<>> /\ Head(rest) = "." THEN LeadingDigits(Tail(rest))
             ELSE <<>>
    IN  IF d = <<>> /\ f = <<>> THEN NaN
        ELSE Num(Signed(t, DecimalValue(d) * PowerOfTen(Len(f)) + DecimalValue(f)),
                 PowerOfTen(Len(f)))

\* process.env.X || fallback
EnvOr(v, fallback) == IF v = <<>> THEN fallback ELSE v

\* a field of overrides is given when it is not undefined
Given(x) == x.kind # "undefined"

\* a bug: the environment wins over the overrides
SpreadEnvFirst(base, over) == base

\* { ...base, ...overrides }
Spread(base, over) ==
    [f \in DOMAIN base |-> IF Given(over[f]) THEN over[f] ELSE base[f]]

\* the configuration createConfiguredRateLimiter(overrides) arrives at
ConfiguredConfig(e, over) ==
    Spread([capacity |-> ParseIntText(EnvOr(e.RATE_LIMIT_CAPACITY, <<"1", "0", "0">>)),
            refillRate |-> ParseFloatText(EnvOr(e.RATE_LIMIT_REFILL_RATE,
                                                <<"1", ".", "6", "7">>))],
           over)

\* config.capacity <= 0 || config.refillRate <= 0
ConfiguredThrows(c) ==
    \/ (c.capacity.kind = "num" /\ c.capacity.n <= 0)
    \/ (c.refillRate.kind = "num" /\ c.refillRate.n <= 0)

rateLimitProfiles ==
    [auth |-> [capacity |-> Num(5, 1), refillRate |-> Num(83, 1000)],
     api |-> [capacity |-> Num(100, 1), refillRate |-> Num(167, 100)],
     read |-> [capacity |-> Num(200, 1), refillRate |-> Num(333, 100)],
     write |-> [capacity |-> Num(50, 1), refillRate |-> Num(83, 100)]]

\* the configuration a factory call arrives at
CallConfig(e, call) ==
    IF call.factory = "createProfiledRateLimiter"
    THEN ConfiguredConfig(e, Spread(rateLimitProfiles[call.profile], call.overrides))
    ELSE ConfiguredConfig(e, call.overrides)

\* the factory calls followed
Calls ==
    {[factory |-> "createConfiguredRateLimiter", profile |-> "", overrides |-> o] :
        o \in {NoOverrides,
               [NoOverrides EXCEPT !.capacity = Num(3, 1)],
               [NoOverrides EXCEPT !.refillRate = Num(1, 1)]}}
    \cup
    {[factory |-> "createProfiledRateLimiter", profile |-> "write", overrides |-> o] :
        o \in {NoOverrides, [NoOverrides EXCEPT !.capacity = Num(2, 1)]}}

\* what the two variables are set to: nothing, or a decimal text
EnvCapacities == {<<>>, <<"5">>, <<"0">>}
EnvRefillRates == {<<>>, <<"2">>, <<"0", ".", "5">>}

\* a request of the limiter built: the key is derived, consume runs and the
\* response is made; hist counts the calls of the key and the allowed ones
Serve(client) ==
    LET b == GetBucket(storage, config, client, now)
        res == ConsumeResult(b, config, now)
        after == ConsumeStorage(storage, config, client, now)
        e == [key |-> client, res |-> res,
              stored |-> after[BucketKey(config, client)].tokens,
              touched |-> after # storage, prev |-> -1]
    IN  /\ ctor = "ok"
        /\ storage' = after
        /\ ConsumeHist(client)
        /\ last' = [op |-> "consume", key |-> client, res |-> res]
        /\ resp' = IF res.allowed THEN Admitted(config, e)
                   ELSE Rejected(config, e, "returns")
        /\ UNCHANGED <<request, built, now, config, ctor, appVars, pending, obs,
                       awaitQ, lastAdm>>

\* the requests of one instant
NextConf == \E k \in Keys : Serve(k)

InitConf ==
    /\ \E c \in EnvCapacities, r \in EnvRefillRates, call \in Calls :
           /\ env = [NoEnv EXCEPT !.RATE_LIMIT_CAPACITY = c,
                                  !.RATE_LIMIT_REFILL_RATE = r]
           /\ built = call
           /\ ctor = IF ConfiguredThrows(CallConfig(env, call)) THEN "error" ELSE "ok"
           /\ config =
                  TokenBucketConfig(CallConfig(env, call).capacity.n,
                                    <<CallConfig(env, call).refillRate.n,
                                      CallConfig(env, call).refillRate.d>>,
                                    "api_rate_limit")
    /\ InitCore
    /\ monitor = NewMonitor(0)
    /\ assess = NoAssess
    /\ books = NoBooks
    /\ sums = NoSums

SpecConf == InitConf /\ [][NextConf]_vars

---------------------------------------------------------------------------
(* One key polled with consume at intervals shorter than a token's time *)

\* the time between two polls: half a tick
PollMs == TickMs \div 2

\* Date.now() advances by less than the time of one token
PollWait ==
    /\ now + PollMs <= MaxTime * TickMs
    /\ now' = now + PollMs
    /\ last' = NoLast
    /\ UNCHANGED <<request, built, config, ctor, appVars, storage, pending, hist, obs, awaitQ, resp,
                   lastAdm>>

\* obs after a rejected consume of key at t: the time of the latest
\* rejected call and how many were rejected since the key's latest allowed
\* call (counted up to 2)
RejectedPolls(o, adm, key, t) ==
    [key |-> key, t0 |-> t,
     count |-> IF o.key = key /\ adm[key] <= o.t0 THEN Min(o.count + 1, 2) ELSE 1]

\* await bucket.consume(key); lastAdm keeps the time of the key's latest
\* allowed call, obs the rejected calls
Poll(key) ==
    /\ ctor = "ok"
    /\ storage' = ConsumeStorage(storage, config, key, now)
    /\ last' = [op |-> "consume", key |-> key,
                res |-> ConsumeResult(GetBucket(storage, config, key, now),
                                      config, now)]
    /\ lastAdm' = IF ConsumeResult(GetBucket(storage, config, key, now),
                                   config, now).allowed
                  THEN [lastAdm EXCEPT ![key] = now]
                  ELSE lastAdm
    /\ obs' = IF ConsumeResult(GetBucket(storage, config, key, now),
                               config, now).allowed
              THEN obs
              ELSE RejectedPolls(obs, lastAdm, key, now)
    /\ UNCHANGED <<request, built, now, config, ctor, awaitQ, resp, pending, hist, appVars>>

NextPoll ==
    \/ PollWait
    \/ \E k \in Keys : Poll(k)

SpecPoll == Init /\ [][NextPoll]_vars

---------------------------------------------------------------------------
(* A TokenBucket under a clock that can be set back *)

\* Date.now() returns less than it did
ClockBack ==
    /\ now >= TickMs
    /\ now' = now - TickMs
    /\ last' = NoLast
    /\ UNCHANGED <<request, built, config, ctor, appVars, storage, pending, hist, obs, awaitQ, resp,
                   lastAdm>>

ConsumePlain(key) ==
    /\ ConsumeBody(key)
    /\ last' = [op |-> "consume", key |-> key,
                res |-> ConsumeResult(GetBucket(storage, config, key, now),
                                      config, now)]
    /\ UNCHANGED <<request, built, pending, hist, obs, appVars>>

NextClock ==
    \/ Tick
    \/ ClockBack
    \/ \E k \in Keys : ConsumePlain(k)
    \/ \E k \in Keys : GetStatus(k)

SpecClock == Init /\ [][NextClock]_vars

---------------------------------------------------------------------------
(* The ScalabilityMonitor, called directly *)

ResponseTimes == {0, 100}
Statuses == {OkStatus, 500}
ClientIds == {"", "client1"}

\* Date.now() advances by half the window or by the whole of it
Elapse(d) ==
    /\ now + d <= MaxElapse * WindowMs
    /\ now' = now + d
    /\ perf' = NoPerf
    /\ UNCHANGED <<request, built, config, ctor, storage, pending, last, hist, obs, awaitQ, resp,
                   lastAdm, limiters, retry, monitor, collector, reqs, assess, env,
                   books, sums>>

MonRecordRequest(responseTime, statusCode, clientId) ==
    /\ monitor.made < MaxMade
    /\ monitor' = [RecordRequest(monitor, responseTime, statusCode, clientId, now)
                       EXCEPT !.made = monitor.made + 1]
    /\ perf' = NoPerf
    /\ UNCHANGED <<request, built, now, config, ctor, storage, pending, last, hist, obs, awaitQ, resp,
                   lastAdm, limiters, retry, collector, reqs, assess, env,
                   books, sums>>

MonReset ==
    /\ monitor' = MonitorReset(monitor, now)
    /\ perf' = NoPerf
    /\ UNCHANGED <<request, built, now, config, ctor, storage, pending, last, hist, obs, awaitQ, resp,
                   lastAdm, limiters, retry, collector, reqs, assess, env,
                   books, sums>>

GetPerformanceMetrics ==
    /\ perf' = [op |-> "getPerformanceMetrics",
                res |-> PerformanceMetrics(monitor.requestMetrics, now)]
    /\ UNCHANGED <<request, built, now, config, ctor, storage, pending, last, hist, obs, awaitQ, resp,
                   lastAdm, limiters, retry, monitor, collector, reqs, assess, env,
                   books, sums>>

NextMonitor ==
    \/ \E d \in {WindowMs \div 2, WindowMs} : Elapse(d)
    \/ \E rt \in ResponseTimes, st \in Statuses, c \in ClientIds :
           MonRecordRequest(rt, st, c)
    \/ MonReset
    \/ GetPerformanceMetrics

InitMonitor ==
    /\ config = ProfileConfig("globalRateLimit")
    /\ ctor = "ok"
    /\ InitRest

SpecMonitor == InitMonitor /\ [][NextMonitor]_vars

---------------------------------------------------------------------------
(* The ScalabilityMonitor with a request buffer near its cap *)

\* buffers the monitor starts the behaviour with: at the cap, or one or two
\* records below
InitialLengths == {BufferCap - 2, BufferCap - 1, BufferCap}

\* a request without client id answered at once
BurstRecordRequest(statusCode) ==
    /\ monitor.made < MaxMade
    /\ monitor' = [RecordRequest(monitor, 0, statusCode, "", now)
                       EXCEPT !.made = monitor.made + 1]
    /\ UNCHANGED <<request, built, now, config, ctor, storage, pending, last, hist, obs, awaitQ, resp,
                   lastAdm, limiters, retry, perf, collector, reqs, assess, env,
                   books, sums>>

BurstReset ==
    /\ monitor' = MonitorReset(monitor, now)
    /\ UNCHANGED <<request, built, now, config, ctor, storage, pending, last, hist, obs, awaitQ, resp,
                   lastAdm, limiters, retry, perf, collector, reqs, assess, env,
                   books, sums>>

NextBuffer ==
    \/ \E st \in Statuses : BurstRecordRequest(st)
    \/ BurstReset

InitBuffer ==
    /\ config = ProfileConfig("globalRateLimit")
    /\ ctor = "ok"
    /\ InitCore
    /\ env = NoEnv
    /\ books = NoBooks
    /\ built = NoCall
    /\ sums = NoSums
    /\ \E n \in InitialLengths : monitor = NewMonitor(n)
    /\ assess = NoAssess

SpecBuffer == InitBuffer /\ [][NextBuffer]_vars

---------------------------------------------------------------------------
(* SpecClients: the active-client set of a monitor that many clients have  *)
(* called                                                                  *)

\* the id of the client of the n-th recordRequest call, each call made by
\* another client
ClientOf(n) == ToString(n)

\* a monitor after n recordRequest calls, each by another client: the set
\* holds the clients of the calls since the buffer length was last a
\* multiple of 1000
MonitorOfClients(n) ==
    [NewMonitor(n) EXCEPT
        !.activeConnections = {ClientOf(i) : i \in (n - (n % CleanupEvery) + 1)..n}]

\* calls made before the behaviour starts: up to the next clearing, and up
\* to the cap
CallsBefore == {CleanupEvery - 2, CleanupEvery - 1, BufferCap - 1, BufferCap}

\* a request is recorded for no client, for a client seen before or for a
\* new one, or the monitor is reset
NextClients ==
    \/ \E c \in {"", ClientOf(1), ClientOf(monitor.pushed + 1)} :
           MonRecordRequest(0, OkStatus, c)
    \/ MonReset

InitClients ==
    /\ config = ProfileConfig("globalRateLimit")
    /\ ctor = "ok"
    /\ InitCore
    /\ env = NoEnv
    /\ books = NoBooks
    /\ built = NoCall
    /\ sums = NoSums
    /\ \E n \in CallsBefore : monitor = MonitorOfClients(n)
    /\ assess = NoAssess

SpecClients == InitClients /\ [][NextClients]_vars

---------------------------------------------------------------------------
(* The middleware chain of index.ts: metricsMiddleware,                    *)
(* scalabilityMonitoringMiddleware, globalRateLimit, writeRateLimit, route *)

HandlerStatuses == {OkStatus, 500}

\* metricsMiddleware: the counters at the arrival of a request
Counted(col, route) ==
    [col EXCEPT !.totalRequests = col.totalRequests + 1,
                !.requestsPerEndpoint[route] = col.requestsPerEndpoint[route] + 1]

\* the res.status wrapper of metricsMiddleware
StatusSet(col, code, client) ==
    IF code = TooManyRequests
    THEN [col EXCEPT !.rateLimitedRequests = col.rateLimitedRequests + 1,
                     !.rateLimitViolationsPerKey[client] =
                         col.rateLimitViolationsPerKey[client] + 1]
    ELSE col

\* the request after res.status(code) and the wrapped res.end
Ended(r, code) ==
    [r EXCEPT !.stage = "ended", !.statusCode = code,
              !.recorded = r.recorded + 1, !.recordedStatus = code]

\* res.status(code).json(...): the status is set, and the wrapped res.end
\* calls monitor.recordRequest(Date.now() - startTime, res.statusCode, clientId)
Respond(id, code) ==
    /\ collector' = StatusSet(collector, code, reqs[id].client)
    /\ monitor' = RecordRequest(monitor, now - reqs[id].startTime, code,
                                reqs[id].client, now)
    /\ reqs' = [reqs EXCEPT ![id] = Ended(reqs[id], code)]

\* a request arrives and passes metricsMiddleware and
\* scalabilityMonitoringMiddleware
Arrive(id, client, route) ==
    /\ reqs[id].stage = "idle"
    /\ \A j \in ReqIds : j < id => reqs[j].stage # "idle"
    /\ collector' = Counted(collector, route)
    /\ reqs' = [reqs EXCEPT ![id] =
                   [NoRequest EXCEPT !.stage = IF route = "health" THEN "handler"
                                               ELSE "global",
                                     !.client = client, !.route = route,
                                     !.startTime = now, !.counted = 1]]
    /\ UNCHANGED <<request, built, now, config, ctor, storage, pending, last, hist, obs, awaitQ, resp,
                   lastAdm, limiters, retry, monitor, perf, assess, env,
                   books, sums>>

\* a limiter of the chain answers the request
Limit(id, inst, stage, onward) ==
    /\ reqs[id].stage = stage
    /\ limiters' = [limiters EXCEPT !.maps = LimiterMaps(inst, reqs[id].client)]
    /\ IF LimiterResult(inst, reqs[id].client).allowed
       THEN /\ reqs' = [reqs EXCEPT ![id].stage = onward]
            /\ UNCHANGED <<request, built, monitor, collector>>
       ELSE Respond(id, TooManyRequests)
    /\ UNCHANGED <<request, built, now, config, ctor, storage, pending, last, hist, obs, awaitQ, resp,
                   lastAdm, retry, perf, assess, env,
                   books, sums>>

ChainGlobal(id) ==
    Limit(id, "globalRateLimit", "global",
          IF reqs[id].route = "write" THEN "write" ELSE "handler")

ChainWrite(id) == Limit(id, "writeRateLimit", "write", "handler")

\* the route handler answers
Handle(id, code) ==
    /\ reqs[id].stage = "handler"
    /\ Respond(id, code)
    /\ UNCHANGED <<request, built, now, config, ctor, storage, pending, last, hist, obs, awaitQ, resp,
                   lastAdm, limiters, retry, perf, assess, env,
                   books, sums>>

\* the requests of one instant: Date.now() stays as it is
NextChain ==
    \/ \E id \in ReqIds, k \in Keys, r \in Routes : Arrive(id, k, r)
    \/ \E id \in ReqIds : ChainGlobal(id)
    \/ \E id \in ReqIds : ChainWrite(id)
    \/ \E id \in ReqIds, code \in HandlerStatuses : Handle(id, code)

InitChain ==
    /\ config = ProfileConfig("globalRateLimit")
    /\ ctor = "ok"
    /\ InitRest

SpecChain == InitChain /\ [][NextChain]_vars

---------------------------------------------------------------------------
(* The two limiters of the chain and the headers they leave on a response *)

\* a bug: a header already on the response is not replaced
SetKeepsFirst(old, new) == IF old.set THEN old ELSE new

\* res.set({...}): the X-RateLimit-* headers replace those already set
Set(old, new) == new

\* the headers after the limiter inst has answered with res: res.set of the
\* three X-RateLimit-* headers, and Retry-After on a rejection
HeadersAfter(old, inst, res) ==
    LET h == Set(old, RateLimitHeaders(ProfileConfig(inst), res))
    IN  IF ~res.allowed /\ Truthy(res.retryAfterSeconds)
        THEN [h EXCEPT !.retryAfter = res.retryAfterSeconds]
        ELSE h

\* a limiter of the chain answers the request; ran keeps, per request, the
\* limiters that have answered it and their results
Stage(id, inst, stage, onward) ==
    LET r == reqs[id]
        res == LimiterResult(inst, r.client)
        seen == [r EXCEPT !.headers = HeadersAfter(r.headers, inst, res),
                          !.ran = Append(r.ran, [inst |-> inst, res |-> res])]
    IN  /\ r.stage = stage
        /\ limiters' = [limiters EXCEPT !.maps = LimiterMaps(inst, r.client)]
        /\ IF res.allowed
           THEN /\ reqs' = [reqs EXCEPT ![id] = [seen EXCEPT !.stage = onward]]
                /\ UNCHANGED <<monitor, collector>>
           ELSE /\ collector' = StatusSet(collector, TooManyRequests, r.client)
                /\ monitor' = RecordRequest(monitor, now - r.startTime,
                                            TooManyRequests, r.client, now)
                /\ reqs' = [reqs EXCEPT ![id] = Ended(seen, TooManyRequests)]
        /\ UNCHANGED <<request, built, now, config, ctor, storage, pending, last, hist, obs,
                       awaitQ, resp, lastAdm, retry, perf, assess, env, books, sums>>

\* app.use('/api', globalRateLimit)
StageGlobal(id) ==
    Stage(id, "globalRateLimit", "global",
          IF reqs[id].route = "write" THEN "write" ELSE "handler")

\* app.use('/api/books', ...): writeRateLimit for POST, PUT and DELETE
StageWrite(id) == Stage(id, "writeRateLimit", "write", "handler")

NextStage ==
    \/ \E id \in ReqIds, k \in Keys, r \in Routes : Arrive(id, k, r)
    \/ \E id \in ReqIds : StageGlobal(id)
    \/ \E id \in ReqIds : StageWrite(id)
    \/ \E id \in ReqIds, code \in HandlerStatuses : Handle(id, code)

SpecStage == InitChain /\ [][NextStage]_vars

---------------------------------------------------------------------------
(* The chain with a clock, and getPerformanceMetrics read in between *)

\* no request is on its way through the chain
Quiet == \A id \in ReqIds : reqs[id].stage \in {"idle", "ended"}

\* one client's write requests, one after the other, the clock advancing and
\* the metrics being read between them
NextErrors ==
    \/ \E id \in ReqIds : Quiet /\ Arrive(id, "client1", "write")
    \/ \E id \in ReqIds : ChainGlobal(id)
    \/ \E id \in ReqIds : ChainWrite(id)
    \/ \E id \in ReqIds, code \in HandlerStatuses : Handle(id, code)
    \/ \E d \in {WindowMs \div 2, WindowMs} : Quiet /\ Elapse(d)
    \/ Quiet /\ GetPerformanceMetrics

SpecErrors == InitChain /\ [][NextErrors]_vars

---------------------------------------------------------------------------
(* getScalabilityAssessment: the score and the traffic light *)

KiBPerGiB == 1024 * 1024

\* metrics.database.databaseSize in KiB; p95, requestsPerSecond, errors.rate
\* and memory.usage in hundredths, as getPerformanceMetrics and
\* getSystemMetrics round them
DatabaseSizes == {0, KiBPerGiB, KiBPerGiB + 1, 5 * KiBPerGiB, 5 * KiBPerGiB + 1}

P95s == {0, 15000, 20000, 20001, 50000, 50001, 60000}

Throughputs == {0, 10000, 10001, 50000, 50001}

ErrorRates == {0, 100, 101, 500, 501}

MemoryUsages == {0, 8000, 8001, 9000, 9001}

ScalabilityMetrics(db, p95, rps, err, mem) ==
    [databaseSize |-> db, p95 |-> p95, requestsPerSecond |-> rps,
     errorRate |-> err, memoryUsage |-> mem]

\* dbSizeGB > 5, dbSizeGB > 1
DatabaseDeduction(m) ==
    IF m.databaseSize > 5 * KiBPerGiB THEN 30
    ELSE IF m.databaseSize > KiBPerGiB THEN 15
    ELSE 0

ResponseTimeDeductionNone(m) == 0

ResponseTimeDeduction(m) ==
    IF m.p95 > 500 * 100 THEN 25
    ELSE IF m.p95 > 200 * 100 THEN 10
    ELSE 0

ThroughputDeduction(m) ==
    IF m.requestsPerSecond > 500 * 100 THEN 20
    ELSE IF m.requestsPerSecond > 100 * 100 THEN 5
    ELSE 0

ErrorRateDeduction(m) ==
    IF m.errorRate > 5 * 100 THEN 25
    ELSE IF m.errorRate > 1 * 100 THEN 10
    ELSE 0

\* a bug: a value at the threshold counts as beyond it
MemoryDeductionAtThreshold(m) ==
    IF m.memoryUsage >= 90 * 100 THEN 20
    ELSE IF m.memoryUsage >= 80 * 100 THEN 5
    ELSE 0

MemoryDeduction(m) ==
    IF m.memoryUsage > 90 * 100 THEN 20
    ELSE IF m.memoryUsage > 80 * 100 THEN 5
    ELSE 0

\* let score = 100, less the deductions
RawScore(m) ==
    100 - DatabaseDeduction(m) - ResponseTimeDeduction(m)
        - ThroughputDeduction(m) - ErrorRateDeduction(m) - MemoryDeduction(m)

\* the status is taken from the score before Math.max(0, score)
StatusOf(score) ==
    IF score >= 80 THEN "green"
    ELSE IF score >= 60 THEN "yellow"
    ELSE "red"

ReturnedScoreRaw(score) == score

\* score: Math.max(0, score)
ReturnedScore(score) == Max(0, score)

\* alerts.push(...), in the order of the five assessments
Alerts(m) ==
    (IF m.databaseSize > 5 * KiBPerGiB
     THEN <<"Database size exceeds 5GB - urgent migration needed">>
     ELSE IF m.databaseSize > KiBPerGiB
     THEN <<"Database size exceeds 1GB - plan migration">>
     ELSE <<>>)
    \o (IF m.p95 > 500 * 100 THEN <<"95th percentile response time > 500ms">>
        ELSE <<>>)
    \o (IF m.requestsPerSecond > 500 * 100
        THEN <<"High request rate detected - SQLite limits approaching">>
        ELSE <<>>)
    \o (IF m.errorRate > 5 * 100 THEN <<"High error rate detected">> ELSE <<>>)
    \o (IF m.memoryUsage > 90 * 100 THEN <<"High memory usage - scale vertically">>
        ELSE <<>>)

\* recommendations.push(...), in the order of the five assessments
Recommendations(m) ==
    (IF m.databaseSize > 5 * KiBPerGiB
     THEN <<"Migrate to PostgreSQL immediately">>
     ELSE IF m.databaseSize > KiBPerGiB
     THEN <<"Plan PostgreSQL migration within 2-3 months">>
     ELSE <<>>)
    \o (IF m.p95 > 500 * 100 THEN <<"Optimize database queries and add caching">>
        ELSE IF m.p95 > 200 * 100 THEN <<"Consider query optimization and indexing">>
        ELSE <<>>)
    \o (IF m.requestsPerSecond > 500 * 100
        THEN <<"Implement read replicas or migrate to PostgreSQL">>
        ELSE IF m.requestsPerSecond > 100 * 100
        THEN <<"Monitor request patterns and consider caching">>
        ELSE <<>>)
    \o (IF m.errorRate > 5 * 100
        THEN <<"Investigate error causes and add monitoring">>
        ELSE IF m.errorRate > 1 * 100 THEN <<"Monitor error patterns">>
        ELSE <<>>)
    \o (IF m.memoryUsage > 90 * 100
        THEN <<"Increase server memory or optimize application">>
        ELSE IF m.memoryUsage > 80 * 100 THEN <<"Monitor memory trends">>
        ELSE <<>>)

Assessment(m) ==
    [metrics |-> m, status |-> StatusOf(RawScore(m)),
     score |-> ReturnedScore(RawScore(m)),
     recommendations |-> Recommendations(m), alerts |-> Alerts(m)]

\* requests recorded since move the 95th percentile of the window
ResponseTimesShift(p) ==
    /\ p # assess.metrics.p95
    /\ assess' = [assess EXCEPT !.metrics.p95 = p]
    /\ UNCHANGED <<request, built, now, config, ctor, storage, pending, last, hist, obs, awaitQ, resp,
                   lastAdm, limiters, retry, monitor, perf, collector, reqs, env,
                   books, sums>>

\* await monitor.getScalabilityAssessment(); the last two results are kept
GetScalabilityAssessment ==
    /\ assess' = [assess EXCEPT !.result = <<Assessment(assess.metrics)>>,
                                !.prev = assess.result]
    /\ UNCHANGED <<request, built, now, config, ctor, storage, pending, last, hist, obs, awaitQ, resp,
                   lastAdm, limiters, retry, monitor, perf, collector, reqs, env,
                   books, sums>>

NextAssess ==
    \/ \E p \in P95s : ResponseTimesShift(p)
    \/ GetScalabilityAssessment

InitAssess ==
    /\ config = ProfileConfig("globalRateLimit")
    /\ ctor = "ok"
    /\ InitCore
    /\ env = NoEnv
    /\ books = NoBooks
    /\ built = NoCall
    /\ sums = NoSums
    /\ monitor = NewMonitor(0)
    /\ \E db \in DatabaseSizes, p95 \in P95s, rps \in Throughputs,
          err \in ErrorRates, mem \in MemoryUsages :
           assess = [NoAssess EXCEPT
                        !.metrics = ScalabilityMetrics(db, p95, rps, err, mem)]

SpecAssess == InitAssess /\ [][NextAssess]_vars

---------------------------------------------------------------------------
(* SpecRead: getScalabilityMetrics and getScalabilityAssessment on a         *)
(* monitor that records requests, with the gauges sampled at each call      *)

\* what the queries of getDatabaseMetrics give: they throw, or page_count *
\* page_size comes back (in KiB)
DatabaseReads ==
    {[ok |-> FALSE, databaseSize |-> 0]}
        \cup {[ok |-> TRUE, databaseSize |-> s] : s \in {5 * KiBPerGiB + 1}}

\* memory.usage as process.memoryUsage() gives it, in hundredths of a percent
MemoryReads == {9001}

\* await import('./metricsController'): the collector is loaded, or the
\* import fails
CollectorReads == {"loaded", "fails"}

\* a bug: a size stays in the metrics when the queries have failed
ZeroDatabaseStale == [databaseSize |-> 5 * KiBPerGiB + 1, avgQueryTime |-> 0]

\* the catch of getDatabaseMetrics
ZeroDatabase == [databaseSize |-> 0, avgQueryTime |-> 0]

\* this.requestMetrics.slice(-100)
Last100(buffer) == SubSeq(buffer, Max(1, Len(buffer) - 99), Len(buffer))

\* getDatabaseMetrics(); avgQueryTime in hundredths
GetDatabaseMetrics(read, buffer) ==
    IF ~read.ok THEN ZeroDatabase
    ELSE [databaseSize |-> read.databaseSize,
          avgQueryTime |->
              IF Len(buffer) = 0 THEN 0
              ELSE Round(SumResponseTimes(Last100(buffer), 1, Len(Last100(buffer))) * 100,
                         Len(Last100(buffer)))]

\* the rateLimiting metrics getScalabilityMetrics starts from
ZeroRateLimiting ==
    [totalRequests |-> 0, allowedRequests |-> 0, blockedRequests |-> 0,
     blockRate |-> 0, activeClients |-> 0]

\* metricsCollector.getMetrics(): a copy of the MetricsData
CollectorMetrics(col) ==
    [totalRequests |-> col.totalRequests,
     rateLimitedRequests |-> col.rateLimitedRequests,
     requestsPerEndpoint |-> col.requestsPerEndpoint,
     rateLimitViolationsPerKey |-> col.rateLimitViolationsPerKey]

\* the try block of getScalabilityMetrics: rateLimiting is replaced when the
\* collector's metrics have such a property
RateLimitingMetrics(read, col) ==
    IF read = "loaded" /\ "rateLimiting" \in DOMAIN CollectorMetrics(col)
    THEN CollectorMetrics(col).rateLimiting
    ELSE ZeroRateLimiting

\* getScalabilityMetrics() at Date.now() = t; the fields the assessment reads
\* come first
GetScalabilityMetrics(mon, col, t, reads) ==
    LET db == GetDatabaseMetrics(reads.db, mon.requestMetrics)
        performance == PerformanceMetrics(mon.requestMetrics, t)
    IN  [databaseSize |-> db.databaseSize,
         p95 |-> performance.p95,
         requestsPerSecond |-> performance.requestsPerSecond,
         errorRate |-> performance.errorRate,
         memoryUsage |-> reads.mem,
         avgQueryTime |-> db.avgQueryTime,
         uptime |-> Round(t - mon.startTime, MsPerSec),
         activeConnections |-> Cardinality(mon.activeConnections),
         totalRequests |-> Len(mon.requestMetrics),
         rateLimiting |-> RateLimitingMetrics(reads.col, col)]

\* one call of getScalabilityAssessment: what it returned, with the record
\* window and the gauge readings it was made of
AssessmentCall(mon, col, t, reads) ==
    [out |-> Assessment(GetScalabilityMetrics(mon, col, t, reads)),
     window |-> Recent(mon.requestMetrics, t),
     reads |-> reads]

\* await monitor.getScalabilityAssessment(), the gauges reading db, mem, col
ReadAssessment(db, mem, col) ==
    LET reads == [db |-> db, mem |-> mem, col |-> col]
    IN  /\ assess' = [metrics |-> GetScalabilityMetrics(monitor, collector, now, reads),
                      result |-> <<AssessmentCall(monitor, collector, now, reads)>>,
                      prev |-> assess.result]
        /\ UNCHANGED <<request, built, now, config, ctor, storage, pending, last, hist, obs, awaitQ,
                       resp, lastAdm, limiters, retry, monitor, perf, collector, reqs, env,
                   books, sums>>

\* the calls kept are those made of the current record window: a step that
\* changes the window forgets them
KeptCalls(mon, t) ==
    IF Recent(mon.requestMetrics, t) = Recent(monitor.requestMetrics, now)
    THEN assess
    ELSE NoAssess

\* Date.now() advances by half the window or by the whole of it
ReadElapse(d) ==
    /\ now + d <= MaxElapse * WindowMs
    /\ now' = now + d
    /\ assess' = KeptCalls(monitor, now + d)
    /\ UNCHANGED <<request, built, config, ctor, storage, pending, last, hist, obs, awaitQ, resp,
                   lastAdm, limiters, retry, monitor, perf, collector, reqs, env,
                   books, sums>>

\* a slow request of client1 that failed is recorded
ReadRecordRequest ==
    /\ monitor.made < MaxMade
    /\ monitor' = [RecordRequest(monitor, 600, 500, "client1", now)
                       EXCEPT !.made = monitor.made + 1]
    /\ assess' = KeptCalls(monitor', now)
    /\ UNCHANGED <<request, built, now, config, ctor, storage, pending, last, hist, obs, awaitQ, resp,
                   lastAdm, limiters, retry, perf, collector, reqs, env,
                   books, sums>>

\* monitor.reset()
ReadReset ==
    /\ monitor' = MonitorReset(monitor, now)
    /\ assess' = KeptCalls(monitor', now)
    /\ UNCHANGED <<request, built, now, config, ctor, storage, pending, last, hist, obs, awaitQ, resp,
                   lastAdm, limiters, retry, perf, collector, reqs, env,
                   books, sums>>

NextRead ==
    \/ \E d \in {WindowMs \div 2, WindowMs} : ReadElapse(d)
    \/ ReadRecordRequest
    \/ ReadReset
    \/ \E db \in DatabaseReads, mem \in MemoryReads, col \in CollectorReads :
           ReadAssessment(db, mem, col)

InitRead ==
    /\ config = ProfileConfig("globalRateLimit")
    /\ ctor = "ok"
    /\ InitRest

SpecRead == InitRead /\ [][NextRead]_vars

---------------------------------------------------------------------------
(* SpecThroughput: the throughput a monitor reports with its buffer near   *)
(* the cap, all records within the window                                  *)

\* requests without client id answered at once with 200, the clock moving
\* by a window, the metrics read, and one assessment made with the database
\* and the collector answering
NextThroughput ==
    \/ MonRecordRequest(0, OkStatus, "")
    \/ Elapse(WindowMs)
    \/ GetPerformanceMetrics
    \/ \E db \in {r \in DatabaseReads : r.ok}, mem \in MemoryReads :
           assess.result = <<>> /\ ReadAssessment(db, mem, "loaded")

SpecThroughput == InitBuffer /\ [][NextThroughput]_vars

---------------------------------------------------------------------------
(* SpecEnv: the application under a process environment: /api requests and  *)
(* POST /api/metrics/reset, with NODE_ENV and RATE_LIMIT_ENABLED set        *)

NodeEnvs == {"development", "production"}

EnabledFlags == {"true", "false"}

\* metricsCollector.reset(): the counters start again
CollectorReset(col) == NewCollector

\* metricsMiddleware for an endpoint the collector has not counted before:
\* (requestsPerEndpoint[endpoint] || 0) + 1
CountedEndpoint(col, endpoint) ==
    IF endpoint \in DOMAIN col.requestsPerEndpoint THEN Counted(col, endpoint)
    ELSE [col EXCEPT !.totalRequests = col.totalRequests + 1,
                     !.requestsPerEndpoint =
                         [e \in DOMAIN col.requestsPerEndpoint \cup {endpoint} |->
                             IF e = endpoint THEN 1 ELSE col.requestsPerEndpoint[e]]]

\* POST /api/metrics/reset arrives and passes metricsMiddleware and
\* scalabilityMonitoringMiddleware
ArriveReset(id, client) ==
    /\ reqs[id].stage = "idle"
    /\ \A j \in ReqIds : j < id => reqs[j].stage # "idle"
    /\ collector' = CountedEndpoint(collector, "reset")
    /\ reqs' = [reqs EXCEPT ![id] =
                   [NoRequest EXCEPT !.stage = "global", !.client = client,
                                     !.route = "reset", !.startTime = now,
                                     !.counted = 1]]
    /\ UNCHANGED <<request, built, now, config, ctor, storage, pending, last, hist, obs, awaitQ, resp,
                   lastAdm, limiters, retry, monitor, perf, assess, env,
                   books, sums>>

\* router.post('/reset', MetricsController.resetMetrics): the collector is
\* reset and res.json answers with the status left at 200
HandleReset(id) ==
    /\ reqs[id].stage = "handler"
    /\ reqs[id].route = "reset"
    /\ collector' = CollectorReset(collector)
    /\ monitor' = RecordRequest(monitor, now - reqs[id].startTime, OkStatus,
                                reqs[id].client, now)
    /\ reqs' = [reqs EXCEPT ![id] = Ended(reqs[id], OkStatus)]
    /\ UNCHANGED <<request, built, now, config, ctor, storage, pending, last, hist, obs, awaitQ, resp,
                   lastAdm, limiters, retry, perf, assess, env,
                   books, sums>>

\* the handler of a books route answers
HandleBooks(id) ==
    /\ reqs[id].route # "reset"
    /\ Handle(id, OkStatus)

NextEnv ==
    \/ \E id \in ReqIds, k \in Keys, r \in {"read", "write"} : Arrive(id, k, r)
    \/ \E id \in ReqIds, k \in Keys : ArriveReset(id, k)
    \/ \E id \in ReqIds : ChainGlobal(id)
    \/ \E id \in ReqIds : ChainWrite(id)
    \/ \E id \in ReqIds : HandleBooks(id)
    \/ \E id \in ReqIds : HandleReset(id)

InitEnv ==
    /\ config = ProfileConfig("globalRateLimit")
    /\ ctor = "ok"
    /\ InitCore
    /\ monitor = NewMonitor(0)
    /\ assess = NoAssess
    /\ \E e \in NodeEnvs, f \in EnabledFlags :
           env = [NoEnv EXCEPT !.NODE_ENV = e, !.RATE_LIMIT_ENABLED = f]
    /\ books = NoBooks
    /\ built = NoCall
    /\ sums = NoSums

SpecEnv == InitEnv /\ [][NextEnv]_vars

---------------------------------------------------------------------------
(* SpecBooks: POST /api/books and PUT /api/books/:id with their validation  *)
(* chains.  A text field of a body is its length in characters, Absent     *)
(* when the body has no such field.                                        *)

MaxBooks == 2       \* books created

CurrentYear == 2026

Absent == -1

Body(title, author, publishedYear, description, genre) ==
    [title |-> title, author |-> author, publishedYear |-> publishedYear,
     description |-> description, genre |-> genre]

\* bodies sent to POST /api/books: a valid one, one without title and one
\* with a year before 1000
CreateBodies ==
    {Body(10, 10, 2000, Absent, Absent),
     Body(Absent, 10, 2000, Absent, Absent),
     Body(10, 10, 999, Absent, Absent)}

\* bodies sent to PUT /api/books/:id: a valid one, and one per rule broken
UpdateBodies ==
    {Body(20, Absent, Absent, Absent, Absent),
     Body(256, Absent, Absent, Absent, Absent),
     Body(Absent, 256, Absent, Absent, Absent),
     Body(Absent, Absent, 999, Absent, Absent),
     Body(Absent, Absent, Absent, 1001, Absent),
     Body(Absent, Absent, Absent, Absent, 51)}

\* the :id of the path
IdParams == {"0", "1", "2", "1.5"}

\* validator's isInt on the text of the parameter
IsIntText(p) == p \in {"0", "1", "2"}

\* parseInt(req.params.id)
ParseInt(p) ==
    CASE p = "0" -> 0
      [] p = "1" -> 1
      [] p = "2" -> 2
      [] p = "1.5" -> 1

\* isLength({ min, max }) of a field that is there
LengthWithin(len, min, max) == len >= min /\ len <= max

\* createBookValidation: the fields that fail
CreateErrors(b) ==
    {f \in {"title", "author"} : b[f] = Absent \/ ~LengthWithin(b[f], 1, 255)}
        \cup (IF b.publishedYear = Absent
                 \/ b.publishedYear < 1000 \/ b.publishedYear > CurrentYear
              THEN {"publishedYear"} ELSE {})
        \cup (IF b.description # Absent /\ ~LengthWithin(b.description, 0, 1000)
              THEN {"description"} ELSE {})
        \cup (IF b.genre # Absent /\ ~LengthWithin(b.genre, 0, 50)
              THEN {"genre"} ELSE {})

\* updateBookValidation: every field optional
UpdateErrors(b) ==
    {f \in {"title", "author"} : b[f] # Absent /\ ~LengthWithin(b[f], 1, 255)}
        \cup (IF b.publishedYear # Absent
                 /\ (b.publishedYear < 1000 \/ b.publishedYear > CurrentYear)
              THEN {"publishedYear"} ELSE {})
        \cup (IF b.description # Absent /\ ~LengthWithin(b.description, 0, 1000)
              THEN {"description"} ELSE {})
        \cup (IF b.genre # Absent /\ ~LengthWithin(b.genre, 0, 50)
              THEN {"genre"} ELSE {})

\* bookIdValidation: isInt({ min: 1 })
IdErrors(p) == IF IsIntText(p) /\ ParseInt(p) >= 1 THEN {} ELSE {"id"}

\* bookRepository.save(bookRepository.create(bookData)): the next id
Saved(table, b) == Append(table, b)

\* bookRepository.update(id, updateData): the fields given replace those of
\* the row with that id
Updated(table, id, b) ==
    [i \in DOMAIN table |->
        IF i = id
        THEN [f \in DOMAIN table[i] |-> IF b[f] # Absent THEN b[f] ELSE table[i][f]]
        ELSE table[i]]

\* BookController.createBook after createBookValidation
CreateBook(b) ==
    /\ Len(books.table) < MaxBooks
    /\ books' = IF CreateErrors(b) # {}
                THEN [books EXCEPT !.out = [op |-> "createBook", id |-> "", body |-> b,
                                            status |-> 400]]
                ELSE [table |-> Saved(books.table, b),
                      out |-> [op |-> "createBook", id |-> "", body |-> b,
                               status |-> 201]]
    /\ UNCHANGED <<request, built, now, config, ctor, storage, pending, last, hist, obs, awaitQ, resp,
                   lastAdm, limiters, retry, monitor, perf, collector, reqs, assess,
                   env, sums>>

\* BookController.updateBook after bookIdValidation and updateBookValidation:
\* the errors the chains have collected are not looked at
UpdateBook(p, b) ==
    /\ books' = [table |-> Updated(books.table, ParseInt(p), b),
                 out |-> [op |-> "updateBook", id |-> p, body |-> b,
                          status |-> IF ParseInt(p) \in DOMAIN books.table
                                     THEN 200 ELSE 404]]
    /\ UNCHANGED <<request, built, now, config, ctor, storage, pending, last, hist, obs, awaitQ, resp,
                   lastAdm, limiters, retry, monitor, perf, collector, reqs, assess,
                   env, sums>>

NextBooks ==
    \/ \E b \in CreateBodies : CreateBook(b)
    \/ \E p \in IdParams, b \in UpdateBodies : UpdateBook(p, b)

InitBooks ==
    /\ config = ProfileConfig("globalRateLimit")
    /\ ctor = "ok"
    /\ InitRest

SpecBooks == InitBooks /\ [][NextBooks]_vars

---------------------------------------------------------------------------
(* SpecSum: the four sum-to-n functions.  A number is an IEEE double scaled *)
(* down: its significand has Precision bits where the code's has 53, so     *)
(* Number.MAX_SAFE_INTEGER is 2^Precision - 1 and the results of * and +    *)
(* are rounded to Precision bits, ties to even.  The engine's call stack    *)
(* holds StackLimit frames of these functions.                              *)

Precision == 5      \* bits of a significand
MaxN == 12          \* the largest argument
StackLimit == 4     \* frames the call stack holds

RECURSIVE Pow2(_)
Pow2(k) == IF k = 0 THEN 1 ELSE 2 * Pow2(k - 1)

\* Number.MAX_SAFE_INTEGER
MaxSafeInteger == Pow2(Precision) - 1

\* the spacing of the doubles around x >= 0
RECURSIVE Ulp(_, _)
Ulp(x, q) == IF x \div q < Pow2(Precision) THEN q ELSE Ulp(x, 2 * q)

\* the double nearest to the integer x, ties to even
Fl(x) ==
    LET a == IF x < 0 THEN -x ELSE x
        q == Ulp(a, 1)
        lo == (a \div q) * q
        rem == a - lo
        r == IF 2 * rem < q THEN lo
             ELSE IF 2 * rem > q THEN lo + q
             ELSE IF (a \div q) % 2 = 0 THEN lo ELSE lo + q
    IN  IF x < 0 THEN -r ELSE r

Value(v) == [kind |-> "value", v |-> v]

\* throw new Error('Result exceeds Number.MAX_SAFE_INTEGER')
ExceedsError == [kind |-> "Result exceeds Number.MAX_SAFE_INTEGER", v |-> 0]

\* RangeError: Maximum call stack size exceeded
StackError == [kind |-> "RangeError", v |-> 0]

\* n > 0 && (n * (n + 1)) / 2 > Number.MAX_SAFE_INTEGER
Exceeds(n) == n > 0 /\ Fl(n * (n + 1)) \div 2 > MaxSafeInteger

\* for (let i = 1; i <= n; i++) sum += i
RECURSIVE LoopSum(_, _, _)
LoopSum(i, n, sum) == IF i > n THEN sum ELSE LoopSum(i + 1, n, Fl(sum + i))

sumToNWithLoop(n) ==
    IF Exceeds(n) THEN ExceedsError ELSE Value(LoopSum(1, n, 0))

sumToNWithFormula(n) ==
    IF Exceeds(n) THEN ExceedsError ELSE Value(Fl(n * (n + 1)) \div 2)

\* the call that is frame number depth of the stack
RECURSIVE sumToNWithRecursion(_, _)
sumToNWithRecursion(n, depth) ==
    IF depth > StackLimit THEN StackError
    ELSE IF Exceeds(n) THEN ExceedsError
    ELSE IF n = 0 THEN Value(0)
    ELSE LET r == sumToNWithRecursion(n - 1, depth + 1)
         IN  IF r.kind = "value" THEN Value(Fl(n + r.v)) ELSE r

\* memo.set(n, result)
MemoSet(memo, n, result) ==
    [k \in DOMAIN memo \cup {n} |-> IF k = n THEN result ELSE memo[k]]

\* the call that is frame number depth of the stack: what it returns or
\* throws, and the memo it leaves
RECURSIVE sumToNMemoRecursion(_, _, _)
sumToNMemoRecursion(n, memo, depth) ==
    IF depth > StackLimit THEN [out |-> StackError, memo |-> memo]
    ELSE IF Exceeds(n) THEN [out |-> ExceedsError, memo |-> memo]
    ELSE IF n <= 0 THEN [out |-> Value(0), memo |-> memo]
    ELSE IF n \in DOMAIN memo THEN [out |-> Value(memo[n]), memo |-> memo]
    ELSE LET r == sumToNMemoRecursion(n - 1, memo, depth + 1)
         IN  IF r.out.kind = "value"
             THEN [out |-> Value(Fl(n + r.out.v)),
                   memo |-> MemoSet(r.memo, n, Fl(n + r.out.v))]
             ELSE r

Functions ==
    {"sumToNWithLoop", "sumToNWithFormula", "sumToNWithRecursion",
     "sumToNMemoRecursion"}

Arguments == -2..MaxN

Outcome(fn, n) ==
    CASE fn = "sumToNWithLoop" -> sumToNWithLoop(n)
      [] fn = "sumToNWithFormula" -> sumToNWithFormula(n)
      [] fn = "sumToNWithRecursion" -> sumToNWithRecursion(n, 1)
      [] fn = "sumToNMemoRecursion" -> sumToNMemoRecursion(n, sums.memo, 1).out

\* a caller with an empty stack calls fn(n)
Call(fn, n) ==
    /\ sums' = [memo |-> IF fn = "sumToNMemoRecursion"
                         THEN sumToNMemoRecursion(n, sums.memo, 1).memo
                         ELSE sums.memo,
                out |-> [fn |-> fn, n |-> n, kind |-> Outcome(fn, n).kind,
                         v |-> Outcome(fn, n).v]]
    /\ UNCHANGED <<request, built, now, config, ctor, storage, pending, last, hist, obs, awaitQ, resp,
                   lastAdm, limiters, retry, monitor, perf, collector, reqs, assess,
                   env, books>>

NextSum == \E fn \in Functions, n \in Arguments : Call(fn, n)

InitSum ==
    /\ config = ProfileConfig("globalRateLimit")
    /\ ctor = "ok"
    /\ InitRest

SpecSum == InitSum /\ [][NextSum]_vars

---------------------------------------------------------------------------
(* Claims *)

Rate(d) == (d * config.rateNum) \div (MsPerSec * config.rateDen)

\* C1 Capacity bound: on a key with no stored bucket, with no time elapsing,
\* the n-th consume is allowed with capacity - n tokens remaining for
\* n <= capacity, and the (capacity + 1)-th is rejected with 0 remaining.
C1_CapacityBound ==
    \A k \in Keys :
        (/\ last.op = "consume" /\ last.key = k
         /\ hist[k].birth = now
         /\ hist[k].n0 <= config.capacity + 1)
        => IF hist[k].n0 <= config.capacity
           THEN /\ last.res.allowed
                /\ last.res.remainingTokens = config.capacity - hist[k].n0
           ELSE /\ ~last.res.allowed
                /\ last.res.remainingTokens = 0

\* the third call on a bucket of capacity 2 has just been rejected
C1_Witness ==
    \E k \in Keys :
        /\ config.capacity = 2
        /\ last.op = "consume" /\ last.key = k
        /\ hist[k].birth = now /\ hist[k].n0 = 3
        /\ ~last.res.allowed

PendingOf(k) == {i \in 1..Len(pending) : pending[i].key = k}
AllowedOf(k) == {i \in PendingOf(k) : pending[i].res.allowed}

\* C2 Concurrent consume: when every consume made on a key since its bucket
\* was created is still an unawaited promise and no time has elapsed, exactly
\* min(N, capacity) of the N promises hold allowed = true and the others
\* allowed = false.
C2_ConcurrentConsume ==
    \A k \in Keys :
        (/\ hist[k].birth = now
         /\ hist[k].n0 <= config.capacity + 1
         /\ Cardinality(PendingOf(k)) = hist[k].n0)
        => /\ Cardinality(AllowedOf(k)) = Min(hist[k].n0, config.capacity)
           /\ Cardinality(PendingOf(k) \ AllowedOf(k))
                  = hist[k].n0 - Min(hist[k].n0, config.capacity)

\* three calls on one key of a bucket of capacity 2 are outstanding
C2_Witness ==
    \E k \in Keys :
        /\ config.capacity = 2
        /\ hist[k].birth = now /\ hist[k].n0 = 3
        /\ Cardinality(PendingOf(k)) = 3
        /\ Cardinality(AllowedOf(k)) = 2

TokenRange ==
    \A bk \in DOMAIN storage :
        0 <= storage[bk].tokens /\ storage[bk].tokens <= config.capacity

ConsumeEffect ==
    \A k \in Keys :
        (last'.op = "consume" /\ last'.key = k) =>
            LET bk == BucketKey(config, k)
                had == bk \in DOMAIN storage
                before == IF had THEN storage[bk].tokens ELSE config.capacity
                elapsed == IF had THEN now - storage[bk].lastRefill ELSE 0
                refilled == IF Rate(elapsed) > 0
                            THEN Min(config.capacity, before + Rate(elapsed))
                            ELSE before
            IN  /\ bk \in DOMAIN storage'
                /\ last'.res.allowed => storage'[bk].tokens = refilled - 1
                /\ ~last'.res.allowed =>
                       storage'[bk].tokens = refilled /\ refilled = before

\* C3 Token range: every stored bucket has 0 <= tokens <= capacity, and a
\* consume either is allowed and leaves one token less than the refilled
\* count, or is rejected and leaves the token count as it was.
C3_TokenRange == []TokenRange /\ [][ConsumeEffect]_vars

\* a bucket of capacity 2 was refilled to its capacity and a token taken
C3_Witness ==
    \E k \in Keys :
        /\ config.capacity = 2
        /\ last.op = "consume" /\ last.key = k /\ last.res.allowed
        /\ hist[k].birth < now /\ hist[k].n0 = 3
        /\ storage[BucketKey(config, k)].tokens = 1

\* C4 Refill correctness: a bucket exhausted at the instant of its creation
\* and next used d seconds later admits, with no further time elapsing,
\* exactly min(capacity, floor(d * refillRate)) consumes and rejects the rest.
C4_RefillCorrectness ==
    \A k \in Keys :
        (hist[k].t2 = now /\ hist[k].n2 <= config.capacity + 1)
        => hist[k].a2 =
               Min(hist[k].n2,
                   Min(config.capacity, Rate(hist[k].t2 - hist[k].birth)))

\* rate 1/s, two seconds after exhaustion: two calls pass, the third fails
C4_Witness ==
    \E k \in Keys :
        /\ config.capacity = 2
        /\ config.rateNum = 1 /\ config.rateDen = 1
        /\ hist[k].t2 = now /\ hist[k].t2 - hist[k].birth = 2 * TickMs
        /\ hist[k].n2 = 3 /\ hist[k].a2 = 2

\* C5 Long-run rate bound: the consumes of one key admitted from an instant
\* t0 until now, with no reset in between, number at most
\* capacity + floor((now - t0) * refillRate).
C5_RateBound ==
    obs.key # "" => obs.count <= config.capacity + Rate(now - obs.t0)

\* the bound is met after some time has passed
C5_Witness ==
    /\ obs.key # ""
    /\ now > obs.t0
    /\ obs.count > config.capacity
    /\ obs.count = config.capacity + Rate(now - obs.t0)

OtherKeyKept ==
    \A a \in Keys, b \in Keys :
        (/\ a # b
         /\ last'.key = a
         /\ last'.op \in {"consume", "getStatus", "reset"})
        => /\ BucketKey(config, b) \in DOMAIN storage'
                  <=> BucketKey(config, b) \in DOMAIN storage
           /\ BucketKey(config, b) \in DOMAIN storage
                  => storage'[BucketKey(config, b)] = storage[BucketKey(config, b)]

OneConsumeEach ==
    \A a \in Keys, b \in Keys :
        (/\ a # b
         /\ last.op = "getStatus" /\ last.key = b
         /\ hist[a].birth = now /\ hist[a].n0 >= 1
         /\ hist[b].birth = now /\ hist[b].n0 = 1)
        => last.res.remainingTokens = config.capacity - 1

ValidConfig == config.capacity > 0 /\ config.rateNum > 0

\* C7 Rejected requests stop at the middleware: a request whose consume
\* returned allowed = false ends with status 429 and the rejection body, and
\* next() is not called for it.  (Stated for limiters of positive capacity
\* and refill rate: it fails even there.)
C7_RejectedStops ==
    (/\ ValidConfig
     /\ resp.pc = "done" /\ resp.consumed /\ ~resp.res.allowed)
    => /\ resp.statusCode = TooManyRequests
       /\ resp.body = "rejection"
       /\ resp.nextCalls = 0

\* C8 Fail-open: a request in whose admission an error was raised has next()
\* called exactly once, never has status 429 set, and left the stored
\* buckets as they were.
C8_FailOpen ==
    (resp.pc = "done" /\ resp.err # "none")
    => /\ resp.nextCalls = 1
       /\ resp.statusCode # TooManyRequests
       /\ ~resp.touched

\* C9 Rate-limit headers: every request consume returned a result for
\* carries X-RateLimit-Limit = capacity, X-RateLimit-Remaining =
\* max(0, remainingTokens), which is >= 0, is the token count stored for the
\* key when admitted, and is one less than the key's previous admitted
\* response when nothing was refilled in between, and X-RateLimit-Reset = the
\* least whole number of seconds not before resetTime.
C9_RateLimitHeaders ==
    (resp.pc = "done" /\ resp.consumed)
    => LET h == resp.headers
           rt == resp.res.resetTime
       IN  /\ h.set
           /\ h.limit = config.capacity
           /\ h.remaining >= 0
           /\ h.remaining = Max(0, resp.res.remainingTokens)
           /\ resp.res.allowed => h.remaining = resp.stored
           /\ (resp.res.allowed /\ resp.prev >= 0) => h.remaining = resp.prev - 1
           /\ h.reset.kind = rt.kind
           /\ rt.kind = "num" =>
                  /\ h.reset.d = 1
                  /\ h.reset.n * MsPerSec * rt.d >= rt.n
                  /\ (h.reset.n - 1) * MsPerSec * rt.d < rt.n

\* the second admitted request of a key, one token below the first, whose
\* bucket needs a fraction of a second more than a whole number to refill
C9_Witness ==
    /\ resp.pc = "done" /\ resp.consumed /\ resp.res.allowed
    /\ resp.prev = 1 /\ resp.headers.remaining = 0
    /\ resp.headers.limit = 2
    /\ resp.headers.reset.kind = "num"
    /\ resp.headers.reset.n * MsPerSec * resp.res.resetTime.d > resp.res.resetTime.n

\* C10 Configuration validation: no limiter of non-positive capacity or
\* refill rate is ever built, so none serves a request.
C10_ConfigValidated ==
    (ctor = "ok" /\ (awaitQ # <<>> \/ resp.consumed)) => ValidConfig

GetStatusReads ==
    last'.op = "getStatus" =>
        /\ storage' = storage
        /\ (last.op = "getStatus" /\ last.key = last'.key /\ now' = now)
               => last'.res.remainingTokens = last.res.remainingTokens

StatusAfterConsumes ==
    \A k \in Keys :
        (last.op = "getStatus" /\ last.key = k)
        => IF hist[k].birth = now
           THEN last.res.remainingTokens = config.capacity - hist[k].a0
           ELSE hist[k].birth = -1 => /\ last.res.remainingTokens = config.capacity
                                      /\ BucketKey(config, k) \notin DOMAIN storage

\* C11 getStatus is a read: a getStatus step leaves the bucket map as it was
\* (no entry created, none altered) and repeats the result of a getStatus of
\* the same key made just before; after k admitted consumes on a fresh key
\* with no time elapsed it reports capacity - k, and capacity for an unseen
\* key, which stays unseen.
C11_GetStatusReads == [][GetStatusReads]_vars /\ []StatusAfterConsumes

\* getStatus of a key of capacity 2 consumed twice reports 0, the other key
\* having no bucket
C11_Witness ==
    \E k \in Keys :
        /\ config.capacity = 2
        /\ last.op = "getStatus" /\ last.key = k
        /\ hist[k].birth = now /\ hist[k].a0 = 2
        /\ last.res.remainingTokens = 0
        /\ Cardinality(DOMAIN storage) = 1

ResetDeletes ==
    \A k \in Keys :
        last'.op = "reset" =>
            IF last'.key \in {k, ""}
            THEN BucketKey(config, k) \notin DOMAIN storage'
            ELSE /\ BucketKey(config, k) \in DOMAIN storage'
                        <=> BucketKey(config, k) \in DOMAIN storage
                 /\ BucketKey(config, k) \in DOMAIN storage
                        => storage'[BucketKey(config, k)] = storage[BucketKey(config, k)]

AfterReset ==
    \A k \in Keys :
        (hist[k].wiped /\ hist[k].birth = -1 /\ last'.key = k)
        => /\ last'.op = "getStatus" => last'.res.remainingTokens = config.capacity
           /\ last'.op = "consume" =>
                  /\ last'.res.allowed
                  /\ last'.res.remainingTokens = config.capacity - 1

OtherRegistryKept ==
    \A i \in Instances :
        limiters'.lastUse.inst # i => limiters'.maps[i] = limiters.maps[i]

OwnLimits ==
    \A i \in Instances :
        /\ \A bk \in DOMAIN limiters.maps[i] :
               /\ 0 <= limiters.maps[i][bk].tokens
               /\ limiters.maps[i][bk].tokens <= ProfileConfig(i).capacity
        /\ (limiters.lastUse.inst = i /\ limiters.lastUse.res.allowed)
               => /\ limiters.lastUse.res.remainingTokens < ProfileConfig(i).capacity
                  /\ BucketKey(ProfileConfig(i), limiters.lastUse.key)
                         \in DOMAIN limiters.maps[i]
                  /\ limiters.lastUse.res.remainingTokens =
                         limiters.maps[i][BucketKey(ProfileConfig(i),
                                                    limiters.lastUse.key)].tokens

\* C13 Profile independence: a consume made through the global limiter or
\* through the write limiter leaves the bucket map of the other as it was,
\* though both use the key prefix api_rate_limit, and the buckets of each
\* stay within the capacity of its own configuration.
C13_ProfileIndependence == [][OtherRegistryKept]_vars /\ []OwnLimits

\* the write limiter has just rejected a client whose bucket in the global
\* limiter still holds a token
C13_Witness ==
    \E k \in Keys :
        /\ limiters.lastUse.inst = "writeRateLimit"
        /\ limiters.lastUse.key = k
        /\ ~limiters.lastUse.res.allowed
        /\ limiters.maps["globalRateLimit"][BucketKey(ProfileConfig("globalRateLimit"), k)].tokens = 1
        /\ limiters.maps["writeRateLimit"][BucketKey(ProfileConfig("writeRateLimit"), k)].tokens = 0
        /\ BucketKey(ProfileConfig("globalRateLimit"), k)
               = BucketKey(ProfileConfig("writeRateLimit"), k)

RetryAfterValue ==
    (last.op = "consume" /\ ~last.res.allowed)
    => LET ra == last.res.retryAfterSeconds
           need == 1 - last.res.remainingTokens
       IN  /\ ra.kind = "num" /\ ra.d = 1
           /\ ra.n >= 1
           /\ ra.n * config.rateNum >= need * config.rateDen
           /\ (ra.n - 1) * config.rateNum < need * config.rateDen

RetryAfterExamples ==
    /\ RetryAfter(0, TokenBucketConfig(1, <<1, 1>>, "test")) = Num(1, 1)
    /\ RetryAfter(0, TokenBucketConfig(1, <<1, 60>>, "test")) = Num(60, 1)

RetryHonoured ==
    \A k \in Keys :
        (/\ retry[k].state = "waiting"
         /\ last'.op = "consume" /\ last'.key = k
         /\ now >= retry[k].at + retry[k].after.n * MsPerSec)
        => last'.res.allowed

\* C14 Retry-after is sufficient: a rejected consume returns
\* retryAfterSeconds = ceil((1 - tokens) / refillRate), a whole number >= 1
\* (1 at 1 token/s, 60 at 1/60 token/s, for an empty bucket), and a consume of
\* the key made that many seconds or more after the rejection, with no
\* admitted consume of the key in between, is allowed.
C14_RetryAfter ==
    [](RetryAfterValue /\ RetryAfterExamples) /\ [][RetryHonoured]_vars

\* at 1 token per 2 s, a client rejected with retryAfterSeconds = 2 is
\* admitted exactly 2 s after the rejection
C14_Witness ==
    \E k \in Keys :
        /\ config.rateNum = 1 /\ config.rateDen = 2
        /\ retry[k].state = "served"
        /\ retry[k].after = Num(2, 1)
        /\ now = retry[k].at + 2 * MsPerSec
        /\ last.op = "consume" /\ last.key = k /\ last.res.allowed

ConsumeKeepsOrder ==
    \A k \in Keys :
        (/\ last'.op = "consume" /\ last'.key = k
         /\ BucketKey(config, k) \in DOMAIN storage)
        => /\ storage'[BucketKey(config, k)].lastRefill
                  >= storage[BucketKey(config, k)].lastRefill
           /\ storage'[BucketKey(config, k)].tokens
                  >= storage[BucketKey(config, k)].tokens - 1
           /\ now <= storage[BucketKey(config, k)].lastRefill
                  => /\ storage'[BucketKey(config, k)].lastRefill
                            = storage[BucketKey(config, k)].lastRefill
                     /\ last'.res.allowed = (storage[BucketKey(config, k)].tokens >= 1)

StatusClamped ==
    \A k \in Keys :
        (/\ last.op = "getStatus" /\ last.key = k
         /\ BucketKey(config, k) \in DOMAIN storage)
        => /\ 0 <= last.res.remainingTokens
           /\ last.res.remainingTokens <= config.capacity
           /\ last.res.remainingTokens >= storage[BucketKey(config, k)].tokens

\* C15 Negative elapsed time is clamped to zero: under a clock that may read
\* earlier than a bucket's lastRefill, a consume never moves lastRefill back,
\* takes at most its own token and, when the clock is not past lastRefill,
\* decides as if no time had passed; getStatus reports remainingTokens within
\* [0, capacity] and not below the stored token count.
C15_ClampedElapsed == []StatusClamped /\ [][ConsumeKeepsOrder]_vars

BufferBounded == Len(monitor.requestMetrics) <= BufferCap

BufferOrdered ==
    \A i \in 1..(Len(monitor.requestMetrics) - 1) :
        monitor.requestMetrics[i].id < monitor.requestMetrics[i + 1].id

RecordCompacts ==
    monitor'.pushed = monitor.pushed + 1 =>
        LET old == monitor.requestMetrics
            new == monitor'.requestMetrics
        IN  /\ new[Len(new)].id = monitor'.pushed
            /\ new[Len(new)].timestamp = now
            /\ IF Len(old) + 1 > BufferCap
               THEN /\ Len(new) = KeepLast
                    /\ \A i \in 1..(KeepLast - 1) :
                           new[i] = old[Len(old) - KeepLast + 1 + i]
               ELSE /\ Len(new) = Len(old) + 1
                    /\ \A i \in 1..Len(old) : new[i] = old[i]

\* C17 Bounded rolling buffer: the request buffer never holds more than
\* 10,000 records; a recordRequest on a buffer of 10,000 leaves exactly the
\* 5,000 newest records, the one just made last, and any other recordRequest
\* appends its record; the records stay in the order they were made.
C17_BoundedBuffer ==
    [](BufferBounded /\ BufferOrdered) /\ [][RecordCompacts]_vars

\* the buffer was compacted: it holds 5,000 records, the last of which is
\* the 10,001st made
C17_Witness ==
    /\ Len(monitor.requestMetrics) = KeepLast
    /\ monitor.pushed = BufferCap + 1
    /\ monitor.requestMetrics[KeepLast].id = BufferCap + 1
    /\ monitor.requestMetrics[1].id = BufferCap + 1 - KeepLast + 1

NothingRecent ==
    \A i \in 1..Len(monitor.requestMetrics) :
        monitor.requestMetrics[i].timestamp <= now - WindowMs

ZeroWhenIdle ==
    (perf.op = "getPerformanceMetrics" /\ NothingRecent)
    => /\ perf.res.avg = 0 /\ perf.res.p95 = 0 /\ perf.res.p99 = 0
       /\ perf.res.requestsPerSecond = 0 /\ perf.res.requestsPerMinute = 0
       /\ perf.res.errorRate = 0 /\ perf.res.errorCount = 0

PerformanceReads ==
    perf'.op = "getPerformanceMetrics" => monitor' = monitor

\* C18 Zero-division safety: getPerformanceMetrics called when the buffer is
\* empty or holds only records a full window old or older returns zero for
\* avg, p95, p99, requestsPerSecond, requestsPerMinute, the error rate and the
\* error count, and no call of it changes the buffer.
C18_ZeroWhenIdle == []ZeroWhenIdle /\ [][PerformanceReads]_vars

\* a slow, failed request was recorded and lies exactly one window back: the
\* metrics are all zero
C18_Witness ==
    /\ perf.op = "getPerformanceMetrics"
    /\ Len(monitor.requestMetrics) = 1
    /\ monitor.requestMetrics[1].timestamp = now - WindowMs
    /\ monitor.requestMetrics[1].responseTime > 0
    /\ monitor.requestMetrics[1].status >= ErrorStatus
    /\ perf.res = ZeroPerformance

EndedOf == {i \in ReqIds : reqs[i].stage = "ended"}

ReceivedOf == {i \in ReqIds : reqs[i].stage # "idle"}

RecordsOf(i) ==
    {j \in 1..Len(monitor.requestMetrics) :
        /\ monitor.requestMetrics[j].status = reqs[i].statusCode
        /\ monitor.requestMetrics[j].responseTime + reqs[i].startTime
               = monitor.requestMetrics[j].timestamp}

\* C16 Every request is recorded regardless of admission: a request whose
\* response has ended, with the handler's status or with a limiter's 429,
\* made exactly one recordRequest, carrying the final status, and one
\* increment of totalRequests; the monitor holds one record per ended
\* request and totalRequests counts the requests received.
C16_EveryRequestRecorded ==
    /\ \A i \in EndedOf :
           /\ reqs[i].recorded = 1
           /\ reqs[i].recordedStatus = reqs[i].statusCode
           /\ reqs[i].counted = 1
           /\ RecordsOf(i) # {}
    /\ monitor.pushed = Cardinality(EndedOf)
    /\ Len(monitor.requestMetrics) = Cardinality(EndedOf)
    /\ collector.totalRequests = Cardinality(ReceivedOf)
    /\ collector.rateLimitedRequests
           = Cardinality({i \in EndedOf : reqs[i].statusCode = TooManyRequests})

\* one request handled, one rejected by the global limiter and one by the
\* write limiter
C16_Witness ==
    /\ Cardinality(EndedOf) = 3
    /\ \E i \in EndedOf : reqs[i].statusCode = OkStatus
    /\ \E i \in EndedOf : reqs[i].statusCode = TooManyRequests /\ reqs[i].route = "read"
    /\ \E i \in EndedOf : reqs[i].statusCode = TooManyRequests /\ reqs[i].route = "write"
    /\ collector.rateLimitedRequests = 2

Assessed == Len(assess.result) > 0

\* C19 Assessment score and status are consistent: whatever the metric
\* values, the returned score lies in 0..100 and the returned status is green
\* exactly when the score is at least 80, yellow exactly when it is at least
\* 60 and below 80, and red exactly when it is below 60.
C19_ScoreStatusConsistent ==
    Assessed =>
        LET r == assess.result[1]
        IN  /\ r.score \in 0..100
            /\ r.status \in {"green", "yellow", "red"}
            /\ r.status = "green" <=> r.score >= 80
            /\ r.status = "yellow" <=> (60 <= r.score /\ r.score < 80)
            /\ r.status = "red" <=> r.score < 60

\* every deduction applies: the score before the clamp is negative, the
\* returned score is 0 and the status is red
C19_Witness ==
    /\ Assessed
    /\ RawScore(assess.result[1].metrics) < 0
    /\ assess.result[1].score = 0
    /\ assess.result[1].status = "red"

StatusRank(s) == IF s = "green" THEN 2 ELSE IF s = "yellow" THEN 1 ELSE 0

SlowAfterFast ==
    /\ Assessed
    /\ Len(assess.prev) > 0
    /\ assess.prev[1].metrics.p95 = 150 * 100
    /\ assess.result[1].metrics.p95 = 600 * 100
    /\ assess.result[1].metrics
           = [assess.prev[1].metrics EXCEPT !.p95 = 600 * 100]

\* C20 Assessment monotonicity in p95: with database size, throughput, error
\* rate and memory usage held fixed, the score returned with p95 = 600ms is
\* strictly lower than the score returned with p95 = 150ms, and the status
\* with p95 = 600ms is never better than the status with p95 = 150ms.
C20_P95Monotone ==
    SlowAfterFast =>
        /\ assess.result[1].score < assess.prev[1].score
        /\ StatusRank(assess.result[1].status) <= StatusRank(assess.prev[1].status)

\* the other deductions add up to 95: the score falls from 5 to the clamped 0
C20_Witness ==
    /\ SlowAfterFast
    /\ assess.prev[1].score = 5
    /\ assess.result[1].score = 0
    /\ assess.prev[1].status = "red"
    /\ assess.result[1].status = "red"

Called == Len(assess.result) > 0

\* what the caller of getScalabilityAssessment receives
Returned(call) ==
    [status |-> call.out.status, score |-> call.out.score,
     recommendations |-> call.out.recommendations, alerts |-> call.out.alerts]

\* a call of the assessment leaves the monitor as it was
AssessmentReads ==
    (Len(assess'.result) > 0 /\ assess' # assess)
        => /\ monitor'.requestMetrics = monitor.requestMetrics
           /\ monitor'.activeConnections = monitor.activeConnections
           /\ monitor'.startTime = monitor.startTime

\* two calls made of the same record window and the same readings of the
\* database and memory gauges return the same
SameSnapshotSameResult ==
    (/\ Called /\ Len(assess.prev) > 0
     /\ assess.result[1].window = assess.prev[1].window
     /\ assess.result[1].reads.db = assess.prev[1].reads.db
     /\ assess.result[1].reads.mem = assess.prev[1].reads.mem)
        => Returned(assess.result[1]) = Returned(assess.prev[1])

\* C21 Assessment is a pure read: getScalabilityAssessment, with the
\* getPerformanceMetrics and getScalabilityMetrics it uses, leaves the
\* monitor's request buffer, active-client set and start time unchanged, and
\* two calls made with the same record window and the same database and
\* system gauge readings return identical status, score, recommendations and
\* alerts.
C21_PureRead == []SameSnapshotSameResult /\ [][AssessmentReads]_vars

\* two calls at different times of one window that holds a record, the
\* collector loaded at one and not at the other; both raise alerts
C21_Witness ==
    /\ Called /\ Len(assess.prev) > 0
    /\ assess.result[1].window = assess.prev[1].window
    /\ Len(assess.result[1].window) > 0
    /\ assess.result[1].reads.db = assess.prev[1].reads.db
    /\ assess.result[1].reads.col # assess.prev[1].reads.col
    /\ assess.result[1].out.metrics.uptime # assess.prev[1].out.metrics.uptime
    /\ Len(assess.result[1].out.alerts) > 0
    /\ Returned(assess.result[1]) = Returned(assess.prev[1])

DatabaseTexts ==
    {"Database size exceeds 5GB - urgent migration needed",
     "Database size exceeds 1GB - plan migration",
     "Migrate to PostgreSQL immediately",
     "Plan PostgreSQL migration within 2-3 months"}

Texts(seq) == {seq[i] : i \in 1..Len(seq)}

\* C22 Unavailable gauges are absorbed: when the database queries throw or
\* the rate-limiting collector cannot be loaded, getScalabilityMetrics and
\* getScalabilityAssessment still return a result; the missing sub-metrics
\* are zero in it and cause no score deduction, alert or recommendation.
C22_GaugesAbsorbed ==
    Called =>
        LET call == assess.result[1]
            m == call.out.metrics
        IN  /\ call.out.status \in {"green", "yellow", "red"}
            /\ ~call.reads.db.ok =>
                   /\ m.databaseSize = 0
                   /\ m.avgQueryTime = 0
                   /\ call.out.score =
                          Max(0, 100 - ResponseTimeDeduction(m) - ThroughputDeduction(m)
                                     - ErrorRateDeduction(m) - MemoryDeduction(m))
                   /\ Texts(call.out.alerts) \cap DatabaseTexts = {}
                   /\ Texts(call.out.recommendations) \cap DatabaseTexts = {}
            /\ call.reads.col = "fails" =>
                   /\ m.rateLimiting = ZeroRateLimiting
                   /\ Returned(call)
                          = Returned(AssessmentCall(monitor, collector, now,
                                                    [call.reads EXCEPT !.col = "loaded"]))

\* the queries throw and the import fails while the window holds a slow,
\* failed request: the assessment is the one of the other metrics
C22_Witness ==
    /\ Called
    /\ ~assess.result[1].reads.db.ok
    /\ assess.result[1].reads.col = "fails"
    /\ Len(assess.result[1].window) > 0
    /\ assess.result[1].out.score = 30
    /\ assess.result[1].out.status = "red"
    /\ Len(assess.result[1].out.alerts) = 3

\* a request to the reset endpoint is answered by its handler
ResetAnswered(id) ==
    /\ reqs[id].route = "reset"
    /\ reqs[id].stage = "handler"
    /\ reqs'[id].stage = "ended"

ResetGated ==
    \A id \in ReqIds :
        (ResetAnswered(id) /\ env.NODE_ENV # "development")
            => /\ collector' = collector
               /\ reqs'[id].statusCode # OkStatus

\* C23 Administrative reset is gated: when NODE_ENV is other than
\* 'development', a request to POST /api/metrics/reset is refused and leaves
\* the metrics collector's counters unchanged; only in development does it
\* clear them.
C23_ResetGated == [][ResetGated]_vars

\* C24 Global enable/disable flag: when RATE_LIMIT_ENABLED is false no request
\* is rejected with 429 and no tokens are consumed; when it is not, every
\* /api request passes through the limiter.
C24_EnableFlag ==
    env.RATE_LIMIT_ENABLED = "false" =>
        /\ \A id \in ReqIds : reqs[id].statusCode # TooManyRequests
        /\ \A inst \in Instances : limiters.maps[inst] = <<>>

\* the latest step was a PUT whose id or body breaks a validation rule
InvalidUpdate ==
    /\ books'.out.op = "updateBook"
    /\ books' # books
    /\ IdErrors(books'.out.id) \cup UpdateErrors(books'.out.body) # {}

\* the latest step was a POST whose body breaks a validation rule
InvalidCreate ==
    /\ books'.out.op = "createBook"
    /\ books' # books
    /\ CreateErrors(books'.out.body) # {}

\* C25 Update validation: a PUT /api/books/:id whose id or body violates the
\* validation rules is rejected with 400 and leaves the stored book
\* unchanged, as POST /api/books rejects an invalid body before any write.
C25_UpdateValidated ==
    [][(InvalidUpdate \/ InvalidCreate)
          => (books'.out.status = 400 /\ books'.table = books.table)]_vars

\* n * (n + 1) / 2 in exact arithmetic
ClosedForm(n) == (n * (n + 1)) \div 2

\* the memo maps k to k * (k + 1) / 2
MemoRight == \A k \in DOMAIN sums.memo : sums.memo[k] = ClosedForm(k)

\* C26 The four sum-to-n functions agree with the closed form: for every
\* integer n >= 0 whose sum does not exceed the safe-integer limit, each of
\* the four returns n * (n + 1) / 2, whatever calls came before, and the
\* memo only ever maps k to k * (k + 1) / 2.
C26_ClosedForm ==
    /\ MemoRight
    /\ (/\ sums.out.fn \in Functions
        /\ sums.out.n >= 0
        /\ ClosedForm(sums.out.n) <= MaxSafeInteger)
           => (sums.out.kind = "value" /\ sums.out.v = ClosedForm(sums.out.n))

\* the call threw the overflow error exactly when it had to, and returned
\* the sum otherwise
GuardExact ==
    sums.out.fn \in Functions =>
        IF sums.out.n > 0 /\ ClosedForm(sums.out.n) > MaxSafeInteger
        THEN sums.out.kind = ExceedsError.kind
        ELSE /\ sums.out.kind = "value"
             /\ sums.out.n >= 0 => sums.out.v = ClosedForm(sums.out.n)

\* a call of sumToNMemoRecursion that throws leaves the memo as it was
ThrowKeepsMemo ==
    (sums'.out.fn = "sumToNMemoRecursion" /\ sums'.out.kind # "value")
        => sums'.memo = sums.memo

\* C27 Overflow guard: each of the four functions throws 'Result exceeds
\* Number.MAX_SAFE_INTEGER' exactly when n > 0 and n * (n + 1) / 2 exceeds the
\* safe-integer limit, and returns a value, never a wrapped or wrong sum,
\* otherwise; a throwing call of sumToNMemoRecursion leaves the memo
\* unchanged.
C27_OverflowGuard == []GuardExact /\ [][ThrowKeepsMemo]_vars

---------------------------------------------------------------------------
(* C28, C29: the refill bookkeeping of consume under polling *)

\* this step is a consume of key k on a stored bucket
PollOf(k) ==
    /\ last'.op = "consume"
    /\ last'.key = k
    /\ now' = now
    /\ BucketKey(config, k) \in DOMAIN storage

\* ... made a sub-token interval after lastRefill
SubTokenPoll(k) ==
    /\ PollOf(k)
    /\ now > storage[BucketKey(config, k)].lastRefill
    /\ Rate(now - storage[BucketKey(config, k)].lastRefill) = 0

FloorAndKeep(k) ==
    LET b == storage[BucketKey(config, k)]
        c == storage'[BucketKey(config, k)]
    IN  /\ SubTokenPoll(k) =>
              /\ c.lastRefill = b.lastRefill
              /\ c.tokens = IF b.tokens >= 1 THEN b.tokens - 1 ELSE b.tokens
        /\ (PollOf(k) /\ Rate(now - b.lastRefill) > 0) =>
              c.lastRefill = now

PollAdmitted(k) ==
    LET b == storage[BucketKey(config, k)]
    IN  (PollOf(k) /\ b.tokens < 1) =>
            /\ Rate(now - b.lastRefill) >= 1 => last'.res.allowed
            /\ (lastAdm[k] >= 0 /\ Rate(now - lastAdm[k]) >= 1)
                   => last'.res.allowed

\* rejected polls do not move lastRefill: it is never later than the key's
\* latest allowed call
StampNotAfterAdmission ==
    \A k \in Keys :
        BucketKey(config, k) \in DOMAIN storage =>
            storage[BucketKey(config, k)].lastRefill <= lastAdm[k]

\* C29 No starvation by polling: a consume of an exhausted bucket is allowed
\* at the latest at the first poll made 1/r seconds or more after the
\* bucket's last refill, and so 1/r seconds or more after the latest allowed
\* call, however many rejected polls came in between.
C29_NoStarvation ==
    /\ []StampNotAfterAdmission
    /\ [][\A k \in Keys : PollAdmitted(k)]_vars

\* a poll of an exhausted bucket was rejected, and a poll made less than a
\* token's time after that rejected one has just been allowed
C29_Witness ==
    \E k \in Keys :
        /\ last.op = "consume"
        /\ last.key = k
        /\ last.res.allowed
        /\ lastAdm[k] = now
        /\ obs.key = k
        /\ obs.count >= 1
        /\ obs.t0 < now
        /\ Rate(now - obs.t0) = 0

---------------------------------------------------------------------------
(* C30: getStatus and consume at the same instant *)

\* the clock readings the two methods are compared at
Readings == {i * PollMs : i \in 0..(2 * MaxTime)}

\* what getStatus reported (st) is what consume then returns (c)
Predicts(st, c) ==
    /\ c.allowed <=> st.remainingTokens >= 1
    /\ c.allowed => c.remainingTokens = st.remainingTokens - 1
    /\ ~c.allowed =>
          /\ c.remainingTokens = st.remainingTokens
          /\ c.retryAfterSeconds = st.retryAfterSeconds

\* in this state, at every reading not earlier than lastRefill
StatusPredictsConsume ==
    \A k \in Keys, t \in Readings :
        LET b == GetBucket(storage, config, k, t)
        IN  t >= b.lastRefill =>
                Predicts(StatusResult(b, config, t), ConsumeResult(b, config, t))

\* a consume that follows a getStatus of the same key at the same instant
ConsumeAfterStatus ==
    (/\ last.op = "getStatus"
     /\ last'.op = "consume"
     /\ last'.key = last.key
     /\ now' = now
     /\ now >= GetBucket(storage, config, last.key, now).lastRefill)
        => Predicts(last.res, last'.res)

\* C30 getStatus predicts consume: in every reachable bucket state and at
\* every clock value t not earlier than lastRefill, if getStatus(key) at t
\* reports remainingTokens = s then consume(key) at t is allowed exactly when
\* s >= 1, returns remainingTokens = s - 1 when allowed, and remainingTokens
\* = s with the retryAfterSeconds of getStatus when rejected.
C30_StatusPredictsConsume ==
    /\ []StatusPredictsConsume
    /\ [][ConsumeAfterStatus]_vars

\* getStatus has just reported a token that is due but not yet stored
C30_Witness ==
    \E k \in Keys :
        /\ last.op = "getStatus"
        /\ last.key = k
        /\ BucketKey(config, k) \in DOMAIN storage
        /\ storage[BucketKey(config, k)].tokens = 0
        /\ storage[BucketKey(config, k)].lastRefill < now
        /\ last.res.remainingTokens >= 1

---------------------------------------------------------------------------
(* C31: the default key *)

\* the first comma-separated value of a header text
FirstValue(t) ==
    LET commas == {i \in 1..Len(t) : t[i] = ","}
    IN  IF commas = {} THEN t
        ELSE SubSeq(t, 1, (CHOOSE i \in commas : \A j \in commas : i <= j) - 1)

HasForwarded(req) ==
    req.forwarded.present /\ FirstValue(req.forwarded.text) # <<>>

\* the key in the order of the claim
KeyInOrder(req) ==
    IF HasForwarded(req) THEN FirstValue(req.forwarded.text)
    ELSE IF req.realIp.present /\ req.realIp.text # <<>> THEN req.realIp.text
    ELSE IF req.remoteAddress.present /\ req.remoteAddress.text # <<>>
    THEN req.remoteAddress.text
    ELSE Unknown.text

\* the latest request was charged to the bucket of the key in that order
ChargedInOrder ==
    last.op = "consume" =>
        /\ last.key = KeyInOrder(request)
        /\ resp.key = KeyInOrder(request)
        /\ BucketKey(config, last.key) \in DOMAIN storage

\* two requests in a row from one peer with different forwarded values: the
\* second is charged to another bucket and leaves the bucket of the first
\* as it was
OtherForwardedOtherBucket ==
    (/\ last.op = "consume"
     /\ request'.remoteAddress = request.remoteAddress
     /\ HasForwarded(request)
     /\ HasForwarded(request')
     /\ FirstValue(request'.forwarded.text) # FirstValue(request.forwarded.text))
        => /\ last'.key # last.key
           /\ storage'[BucketKey(config, last.key)] = storage[BucketKey(config, last.key)]

\* C31 Default key derivation order: with no custom key generator the client
\* key is the first comma-separated value of X-Forwarded-For when the header
\* is present and that value is not empty, otherwise X-Real-IP, otherwise the
\* peer address, otherwise 'unknown'; the peer address is ignored when a
\* forwarded value is present, so requests of one peer with different
\* forwarded values are charged to different buckets.
C31_DefaultKeyOrder ==
    /\ []ChargedInOrder
    /\ [][OtherForwardedOtherBucket]_vars

\* a request with a forwarded list, a real IP and a peer address was charged
\* to the first forwarded value, and the peer has two buckets
C31_Witness ==
    /\ last.op = "consume"
    /\ request.forwarded.present
    /\ "," \in {request.forwarded.text[i] : i \in 1..Len(request.forwarded.text)}
    /\ request.realIp = Str(<<"r">>)
    /\ request.remoteAddress = Str(<<"p">>)
    /\ last.key = <<"a">>
    /\ Cardinality(DOMAIN storage) = 2
    /\ BucketKey(config, <<"a", "a">>) \in DOMAIN storage

---------------------------------------------------------------------------
(* C32: the two limiters in front of the books routes *)

Answers(r, inst) == {i \in 1..Len(r.ran) : r.ran[i].inst = inst}

\* the limiters answer a request in the order of the chain, the write
\* limiter only a write request the global limiter has admitted, and the
\* handler is reached only past every limiter of the route
InOrder(r) ==
    /\ Len(r.ran) <= 2
    /\ Len(r.ran) >= 1 => r.ran[1].inst = "globalRateLimit"
    /\ Len(r.ran) = 2 =>
          /\ r.route = "write"
          /\ r.ran[1].res.allowed
          /\ r.ran[2].inst = "writeRateLimit"
    /\ r.route # "write" => Answers(r, "writeRateLimit") = {}
    /\ (r.route # "health"
         /\ (r.stage = "handler"
              \/ (r.stage = "ended" /\ r.statusCode # TooManyRequests))) =>
          /\ Len(r.ran) = (IF r.route = "write" THEN 2 ELSE 1)
          /\ \A i \in 1..Len(r.ran) : r.ran[i].res.allowed

\* the rate limit headers of a response are those of the limiter that
\* answered it last
LastHeaders(r) ==
    Len(r.ran) >= 1 =>
        LET l == r.ran[Len(r.ran)]
        IN  /\ r.headers.set
            /\ r.headers.limit = ProfileConfig(l.inst).capacity
            /\ r.headers.remaining = Max(0, l.res.remainingTokens)
            /\ r.headers.reset = ResetHeader(l.res)
            /\ r.headers.retryAfter =
                   (IF l.res.allowed THEN Undefined ELSE l.res.retryAfterSeconds)

TwoStages == \A id \in ReqIds : InOrder(reqs[id]) /\ LastHeaders(reqs[id])

\* request id is answered by the limiter inst in this step, with a rejection
RejectedBy(id, inst) ==
    /\ Len(reqs'[id].ran) = Len(reqs[id].ran) + 1
    /\ reqs'[id].ran[Len(reqs'[id].ran)].inst = inst
    /\ ~reqs'[id].ran[Len(reqs'[id].ran)].res.allowed

\* a rejection by the global limiter leaves the write buckets alone; a
\* rejection by the write limiter leaves the global buckets, with the token
\* taken for the request, alone; a request that is not a write leaves the
\* write buckets alone
StagesApart ==
    \A id \in ReqIds :
        /\ RejectedBy(id, "globalRateLimit") =>
              limiters'.maps["writeRateLimit"] = limiters.maps["writeRateLimit"]
        /\ RejectedBy(id, "writeRateLimit") =>
              LET bk == BucketKey(ProfileConfig("globalRateLimit"), reqs[id].client)
              IN  /\ limiters'.maps["globalRateLimit"] = limiters.maps["globalRateLimit"]
                  /\ limiters.maps["globalRateLimit"][bk].tokens
                         <= reqs[id].ran[1].res.remainingTokens
        /\ (reqs[id].route # "write" /\ reqs'[id] # reqs[id]) =>
              limiters'.maps["writeRateLimit"] = limiters.maps["writeRateLimit"]

\* C32 Two-stage admission of write requests: a POST, PUT or DELETE under
\* /api/books is checked by the global limiter and then by the write
\* limiter; a rejection by the global limiter leaves the write bucket
\* untouched, a rejection by the write limiter does not refund the global
\* token, the handler runs only when both admit, the X-RateLimit-* headers
\* of the response are those of the last limiter that ran, and a GET never
\* consumes from the write bucket.
C32_TwoStageAdmission == []TwoStages /\ [][StagesApart]_vars

\* a write request admitted by the global limiter was rejected by the
\* write limiter and carries the write limiter's headers, and another was
\* rejected by the global limiter
C32_Witness ==
    \E i, j \in ReqIds :
        /\ reqs[i].stage = "ended"
        /\ Len(reqs[i].ran) = 2
        /\ ~reqs[i].ran[2].res.allowed
        /\ reqs[i].headers.limit = ProfileConfig("writeRateLimit").capacity
        /\ reqs[j].stage = "ended"
        /\ reqs[j].route = "write"
        /\ Len(reqs[j].ran) = 1
        /\ ~reqs[j].ran[1].res.allowed

---------------------------------------------------------------------------
(* C33: overrides, profiles and the environment *)

\* the numbers the environment texts of the model write, as <<n, d>>
Written(text) ==
    CASE text = <<"5">> -> <<5, 1>>
      [] text = <<"0">> -> <<0, 1>>
      [] text = <<"2">> -> <<2, 1>>
      [] text = <<"0", ".", "5">> -> <<1, 2>>

\* what the claim says the limiter is built with
ClaimedCapacity ==
    IF Given(built.overrides.capacity) THEN built.overrides.capacity.n
    ELSE IF built.factory = "createProfiledRateLimiter" /\ built.profile = "write"
    THEN 50
    ELSE IF env.RATE_LIMIT_CAPACITY = <<>> THEN 100
    ELSE Written(env.RATE_LIMIT_CAPACITY)[1]

ClaimedRefillRate ==
    IF Given(built.overrides.refillRate)
    THEN <<built.overrides.refillRate.n, built.overrides.refillRate.d>>
    ELSE IF built.factory = "createProfiledRateLimiter" /\ built.profile = "write"
    THEN <<83, 100>>
    ELSE IF env.RATE_LIMIT_REFILL_RATE = <<>> THEN <<167, 100>>
    ELSE Written(env.RATE_LIMIT_REFILL_RATE)

---------------------------------------------------------------------------
(* C34: the deductions of the assessment *)

\* the points of one category: those of the highest threshold the value
\* lies strictly above
Points(value, high, highPoints, low, lowPoints) ==
    IF value > high THEN highPoints
    ELSE IF value > low THEN lowPoints
    ELSE 0

\* the five deductions of the claim; sizes in KiB, the others in hundredths
Deductions(m) ==
    <<Points(m.databaseSize, 5 * KiBPerGiB, 30, KiBPerGiB, 15),
      Points(m.p95, 50000, 25, 20000, 10),
      Points(m.requestsPerSecond, 50000, 20, 10000, 5),
      Points(m.errorRate, 500, 25, 100, 10),
      Points(m.memoryUsage, 9000, 20, 8000, 5)>>

Total(d) == d[1] + d[2] + d[3] + d[4] + d[5]

\* C34 Deduction rules: the score before the clamp is 100 less one
\* deduction per category (database size, p95, throughput, error rate,
\* memory usage), each category on its own and all of them added; within a
\* category only the highest threshold crossed counts (30 or 15, 25 or 10,
\* 20 or 5, 25 or 10, 20 or 5), and a value equal to a threshold triggers
\* nothing.  The score returned is that score clamped at 0, the status is
\* taken from it, and each category with a deduction gives one
\* recommendation.
C34_DeductionRules ==
    Assessed =>
        LET r == assess.result[1]
            d == Deductions(r.metrics)
        IN  /\ r.score = Max(0, 100 - Total(d))
            /\ r.status = (IF 100 - Total(d) >= 80 THEN "green"
                           ELSE IF 100 - Total(d) >= 60 THEN "yellow" ELSE "red")
            /\ Len(r.recommendations) = Cardinality({i \in 1..5 : d[i] > 0})

\* values at a threshold and just above one: 1 GiB and 80% deduct nothing,
\* p95 just above 200 ms, 500 requests per second and an error rate of 5%
\* deduct 10, 5 and 10
C34_Witness ==
    /\ Assessed
    /\ assess.result[1].metrics
           = ScalabilityMetrics(KiBPerGiB, 20001, 50000, 500, 8000)
    /\ assess.result[1].score = 75
    /\ assess.result[1].status = "yellow"

---------------------------------------------------------------------------
(* C35: the error rate *)

\* the records of the trailing window, and the failed ones among them
InWindow ==
    {i \in 1..Len(monitor.requestMetrics) :
        monitor.requestMetrics[i].timestamp > now - 60000}

Failed == {i \in InWindow : monitor.requestMetrics[i].status >= 400}

Limited == {i \in InWindow : monitor.requestMetrics[i].status = TooManyRequests}

\* this step is a call of getPerformanceMetrics
PerformanceRead ==
    /\ perf'.op = "getPerformanceMetrics"
    /\ monitor' = monitor
    /\ reqs' = reqs
    /\ now' = now

\* the error rate, in hundredths, is 100 * count / records to the nearest
\* hundredth
ErrorRateOfWindow ==
    (PerformanceRead /\ InWindow # {}) =>
        /\ perf'.res.errorCount = Cardinality(Failed)
        /\ perf'.res.errorCount >= Cardinality(Limited)
        /\ perf'.res.requestsPerMinute = Cardinality(InWindow)
        /\ perf'.res.errorRate >= 0
        /\ perf'.res.errorRate <= 100 * 100
        /\ 2 * perf'.res.errorRate * Cardinality(InWindow)
               <= 2 * 100 * 100 * Cardinality(Failed) + Cardinality(InWindow)
        /\ 2 * perf'.res.errorRate * Cardinality(InWindow)
               >= 2 * 100 * 100 * Cardinality(Failed) - Cardinality(InWindow)

\* a response ended by a limiter is on record with status 429
LimitedOnRecord ==
    \A i \in EndedOf :
        reqs[i].statusCode = TooManyRequests => RecordsOf(i) # {}

\* C35 Error rate definition: for a non-empty window errors.count is the
\* number of records of the trailing 60 seconds with status >= 400,
\* errors.rate is 100 * errors.count / (records in the window), given to two
\* decimals, and lies in [0, 100]; the responses a rate limiter rejected
\* with 429 are on record and are counted as errors.
C35_ErrorRate == []LimitedOnRecord /\ [][ErrorRateOfWindow]_vars

\* three records in the window, one of them a 429 of the write limiter and
\* the only failure: the count is 1 and the rate 33.33
C35_Witness ==
    /\ perf.op = "getPerformanceMetrics"
    /\ Cardinality(InWindow) = 3
    /\ Cardinality(Limited) = 1
    /\ Cardinality(Failed) = 1
    /\ perf.res.errorCount = 1
    /\ perf.res.errorRate = 3333

---------------------------------------------------------------------------
(* C36: the throughput the buffer allows *)

\* 10,000 / 60 to two decimals, in hundredths: 166.67
ThroughputCap == Round(BufferCap * 100, 60)

HighRateAlert == "High request rate detected - SQLite limits approaching"

HighRateAdvice == "Implement read replicas or migrate to PostgreSQL"

Entries(seq) == {seq[i] : i \in 1..Len(seq)}

\* what getPerformanceMetrics last reported is within the cap
ReportedThroughput ==
    perf.op = "getPerformanceMetrics" =>
        /\ perf.res.requestsPerMinute <= BufferCap
        /\ perf.res.requestsPerSecond <= ThroughputCap
        /\ perf.res.requestsPerSecond <= 500 * 100

\* the assessments made saw a throughput within the cap, took no 20 points
\* for it and raised no alert for it
HighRateNeverFires ==
    \A i \in 1..Len(assess.result) :
        LET a == assess.result[i].out
        IN  /\ a.metrics.requestsPerSecond <= ThroughputCap
            /\ HighRateAlert \notin Entries(a.alerts)
            /\ HighRateAdvice \notin Entries(a.recommendations)
            /\ a.score >= 100 - 30 - 25 - 5 - 25 - 20

\* C36 Throughput is capped by the buffer: the buffer never holds more than
\* 10,000 records, so getPerformanceMetrics reports requestsPerMinute <=
\* 10,000 and requestsPerSecond <= 166.67 (10,000 / 60 to two decimals), and
\* the assessment's rule for more than 500 requests per second never
\* fires: no 20 points are taken and no high-request-rate alert is raised.
C36_ThroughputCapped ==
    /\ Len(monitor.requestMetrics) <= BufferCap
    /\ ReportedThroughput
    /\ HighRateNeverFires

\* the buffer is full after a record and all of it is in the window: 10,000
\* requests per minute and 166.67 per second are reported, and the
\* assessment takes the 5 points of the lower rule
C36_Witness ==
    /\ monitor.made >= 1
    /\ Len(monitor.requestMetrics) = BufferCap
    /\ perf.op = "getPerformanceMetrics"
    /\ perf.res.requestsPerMinute = BufferCap
    /\ perf.res.requestsPerSecond = 16667
    /\ Len(assess.result) = 1
    /\ assess.result[1].out.metrics.requestsPerSecond = 16667
    /\ "Monitor request patterns and consider caching"
           \in Entries(assess.result[1].out.recommendations)

---------------------------------------------------------------------------
(* C37: the active-client set *)

\* the set holds no more clients than records were made since the buffer
\* length was last a multiple of 1000
BoundedClients ==
    /\ Cardinality(monitor.activeConnections)
           <= Len(monitor.requestMetrics) % CleanupEvery
    /\ Cardinality(monitor.activeConnections) < 1000

\* this step is a call of recordRequest
Recorded == monitor'.pushed = monitor.pushed + 1

\* a record that leaves the buffer, compacted or not, at a multiple of 1000
\* leaves the set empty, and a record adds at most its client
ClearedAtMultiples ==
    Recorded =>
        /\ Len(monitor'.requestMetrics) % 1000 = 0
               => monitor'.activeConnections = {}
        /\ Len(monitor'.requestMetrics) \in
               {Len(monitor.requestMetrics) + 1, 5000}
        /\ Cardinality(monitor'.activeConnections)
               <= Cardinality(monitor.activeConnections) + 1

\* C37 Active-client set is bounded: after any sequence of recordRequest
\* and reset calls, with any client ids, the active-client set holds fewer
\* than 1,000 keys: it is cleared whenever the buffer length after a record
\* (and after a compaction to 5,000) is a multiple of 1,000, which happens
\* at least once in every 1,000 consecutive records.
C37_ActiveClientsBounded == []BoundedClients /\ [][ClearedAtMultiples]_vars

\* 999 records since the last clearing, each by another client, the last of
\* them in this behaviour: the set holds 999 keys
C37_Witness ==
    /\ monitor.made >= 1
    /\ Len(monitor.requestMetrics) = 999
    /\ Cardinality(monitor.activeConnections) = 999

---------------------------------------------------------------------------
(* C38: the collector's counters under requests in flight and a reset *)

RECURSIVE SumOver(_, _)
SumOver(f, S) ==
    IF S = {} THEN 0
    ELSE LET x == CHOOSE y \in S : TRUE
         IN  f[x] + SumOver(f, S \ {x})

\* the sum of the counts of a map
CountsOf(f) == SumOver(f, DOMAIN f)

LimitedWithinTotal == collector.rateLimitedRequests <= collector.totalRequests

EndpointsSumToTotal ==
    CountsOf(collector.requestsPerEndpoint) = collector.totalRequests

ViolationsSumToLimited ==
    CountsOf(collector.rateLimitViolationsPerKey) = collector.rateLimitedRequests

CountersConsistent ==
    /\ LimitedWithinTotal
    /\ EndpointsSumToTotal
    /\ ViolationsSumToLimited

\* a step of a request adds 1 to totalRequests when the request arrives and
\* otherwise nothing, and at most 1 to rateLimitedRequests; a reset starts
\* the counters again
EachCountedOnce ==
    \/ collector' = NewCollector
    \/ /\ collector'.totalRequests - collector.totalRequests
              = Cardinality({i \in ReqIds : reqs[i].stage = "idle"
                                              /\ reqs'[i].stage # "idle"})
        /\ collector'.rateLimitedRequests - collector.rateLimitedRequests
              = Cardinality({i \in ReqIds : reqs[i].stage # "ended"
                                              /\ reqs'[i].stage = "ended"
                                              /\ reqs'[i].statusCode = TooManyRequests})
        /\ collector'.rateLimitedRequests - collector.rateLimitedRequests <= 1

\* C38 Collector counters stay consistent: in every state reachable by any
\* interleaving of requests in flight and metricsCollector.reset(),
\* rateLimitedRequests <= totalRequests, the per-endpoint counts sum to
\* totalRequests and the per-client violation counts sum to
\* rateLimitedRequests; each request adds exactly 1 to totalRequests and at
\* most 1 to rateLimitedRequests.
C38_CountersConsistent == []CountersConsistent /\ [][EachCountedOnce]_vars

---------------------------------------------------------------------------
(* C39: the ends of the sum-to-n calls *)

\* C39 Termination on every integer input: for every integer n, negative
\* values included, a call of sumToNWithLoop, sumToNWithFormula,
\* sumToNWithRecursion or sumToNMemoRecursion ends by returning a number or
\* by throwing the overflow error, and in no other way.
C39_ReturnsOrOverflowError ==
    sums.out.fn \in Functions =>
        sums.out.kind \in {Value(0).kind, ExceedsError.kind}

=============================================================================
